---------------------------- MODULE Spec2Model ----------------------------
(***************************************************************************)
(* Model of the deep-research core: the Research Supervisor loop           *)
(* (multi_agent_supervisor.py), the Sub-Researcher Agent loop              *)
(* (research_agent.py), the Red-Team Evaluator's URL validation, audits,   *)
(* content fetch, consistency verification, objectivity scorer and         *)
(* recommendations (red_team_evaluator.py), the finalization node          *)
(* (research_agent_full.py) and the report fixer (report_productor.py).    *)
(*                                                                         *)
(* Specifications:                                                         *)
(*   Spec            supervisor run with its concurrently running agents   *)
(*   FairSpec        Spec with weak fairness of every step                 *)
(*   SpecOverCap     Spec with a first decision beyond the delegation cap  *)
(*   SpecResearcher  one Sub-Researcher Agent run on its own               *)
(*   SpecResearcherLoop  the same agent with no bound on its turns         *)
(*   SpecValidate    validate_url on one URL                               *)
(*   SpecScore       _calculate_objectivity_score on one set of records    *)
(*   SpecConsistency _verify_claim_source_consistency on one report        *)
(*   SpecRecommend   _generate_recommendations on one set of records       *)
(*   SpecAudit       one audit on one response of the model                *)
(*   SpecHttp        validate_url on one URL or fetch_source_content       *)
(*   SpecGroup       validate_urls or _fetch_source_content_map            *)
(*   SpecFinalize    finalize_report on one state                          *)
(*   SpecClean       fix_report on one report and invalid-source set       *)
(***************************************************************************)
EXTENDS Integers, Sequences, FiniteSets, TLC

VARIABLES
    \* ---- supervisor run (SupervisorState and the position in the graph)
    sup_pc,               \* "supervisor" | "supervisor_tools" | "gather" | "END" | "raised" | "idle"
    supervisor_messages,  \* message history
    research_iterations,  \* iteration count
    research_brief,
    draft_report,
    refine_findings,      \* findings handed to the refine tool by the latest refine
    dispatches,           \* Dispatch steps begun: runs of supervisor_tools past the exit criteria
    notes,                \* notes emitted on exit
    exit_path,            \* "none" | "criteria" | "exception": the return statement that ended the run
    pending,              \* locals of supervisor_tools kept across the await of gather
    decisions,            \* number of decision messages the supervisor model has produced
    \* ---- sub-researcher agents (one ResearcherState per running agent)
    agents,
    searches_executed,    \* per agent: invocations of the web-search tool issued so far
    \* ---- validate_url
    v_url, v_pc, v_attempt, v_log, v_sleeps, v_result,
    \* ---- objectivity scorer
    s_in, s_pc, s_out,
    \* ---- claim-source consistency verification
    c_in, c_pc, c_out,
    \* ---- recommendations
    r_in, r_pc, r_out,
    \* ---- the audits of a report
    a_in, a_pc, a_out,
    a_lists,              \* locals valid_sources, invalid_sources of the source audit
    \* ---- fetch_source_content
    f_in, f_pc, f_out,
    \* ---- a parallel group run under a semaphore
    g_in, g_pc, g_tasks, g_out,
    \* ---- finalize_report
    z_in, z_pc, z_step, z_out,
    \* ---- removal of invalid sources from a report
    k_in, k_pc, k_out

supVars == <<sup_pc, supervisor_messages, research_iterations, research_brief,
             draft_report, refine_findings, notes, exit_path, pending,
             decisions, dispatches>>
agentVars == <<agents, searches_executed>>
valVars == <<v_url, v_pc, v_attempt, v_log, v_sleeps, v_result>>
scoreVars == <<s_in, s_pc, s_out>>
consVars == <<c_in, c_pc, c_out>>
recVars == <<r_in, r_pc, r_out>>
auditVars == <<a_in, a_pc, a_out, a_lists>>
fetchVars == <<f_in, f_pc, f_out>>
groupVars == <<g_in, g_pc, g_tasks, g_out>>
finVars == <<z_in, z_pc, z_step, z_out>>
cleanVars == <<k_in, k_pc, k_out>>
evalVars == <<recVars, auditVars, fetchVars, groupVars, finVars, cleanVars>>
vars == <<supVars, agentVars, valVars, scoreVars, consVars, evalVars>>

-----------------------------------------------------------------------------
(* Bounds of the model *)

\* decisions of a supervisor run drawn from the full batch vocabulary; later
\* decisions are drawn from TailBatches
MaxRichDecisions == 2
\* tool-calling turns the researcher model takes before it answers, for an
\* agent run on its own and for an agent inside a supervisor run
MaxAgentTurns == 2
MaxDelegatedTurns == 1

(* Program constants *)
max_researcher_iterations == 15
max_concurrent_researchers == 3
MAX_TAVILY_SEARCHES == 5

-----------------------------------------------------------------------------
(* Messages and tool calls (langchain_core.messages)                        *)

ToolCall(name, id, topic) == [name |-> name, id |-> id, args |-> topic]

HumanMessage(content) ==
    [type |-> "human", content |-> content, tool_calls |-> <<>>,
     name |-> "", tool_call_id |-> 0]

AIMessage(content, calls) ==
    [type |-> "ai", content |-> content, tool_calls |-> calls,
     name |-> "", tool_call_id |-> 0]

ToolMessage(content, name, id) ==
    [type |-> "tool", content |-> content, tool_calls |-> <<>>,
     name |-> name, tool_call_id |-> id]

Last(s) == s[Len(s)]

\* filter_messages(messages, include_types=...): the subsequence of the
\* messages whose type is in types, in order
FilterMessages(messages, types) ==
    LET Keep(m) == m.type \in types IN SelectSeq(messages, Keep)

Contents(messages) == [i \in 1..Len(messages) |-> messages[i].content]

-----------------------------------------------------------------------------
(* Sub-Researcher Agent (research_agent.py)                                 *)

Topics == {"t1", "t2", "t3"}

\* tools_by_name: the tools the researcher can execute
tools_by_name == {"tavily_search", "think_tool"}

\* what a tool returns when it is executed
Observation(tool_call) ==
    IF tool_call.name = "tavily_search" THEN "search_result" ELSE "reflection"

limit_message == "search_limit_reached"

\* the compressed finding the compression model writes for a topic
Finding(topic) ==
    CASE topic = "t1" -> "finding_t1"
      [] topic = "t2" -> "finding_t2"
      [] OTHER -> "finding_t3"

\* the tool calls of one model response: the names in order, identifiers
\* unique within the batch
MkCalls(names, turn, topic) ==
    [k \in 1..Len(names) |-> ToolCall(names[k], 10 * turn + k, topic)]

\* batches the researcher model may answer with when run on its own
ResearcherBatches ==
    { <<"tavily_search">>,
      <<"think_tool">>,
      <<"tavily_search", "think_tool", "tavily_search">>,
      <<"tavily_search", "tavily_search", "tavily_search">>,
      <<"tavily_search", "tavily_search", "tavily_search",
        "tavily_search", "tavily_search", "tavily_search">>,
      <<"think_tool", "other_tool">> }

\* batches the researcher model answers with inside a supervisor run
DelegatedBatches ==
    { <<"tavily_search", "tavily_search", "tavily_search">> }

\* the tool call of a batch whose execution raises (0: none), for an agent
\* run on its own and for an agent inside a supervisor run
ResearcherFailPoints == 0..6
DelegatedFailPoints == {0, 2}

\* the ResearcherState a delegation starts from
NewResearcher(topic) ==
    [pc |-> "llm_call",
     researcher_messages |-> <<HumanMessage(topic)>>,
     research_topic |-> topic,
     tavily_search_count |-> 0,
     compressed_research |-> ""]

\* tool-calling turns taken so far
Turns(ag) ==
    Len(SelectSeq(ag.researcher_messages,
                  LAMBDA m : m.type = "ai" /\ m.tool_calls # <<>>))

\* should_continue: the node that follows llm_call
should_continue(ag) ==
    IF Last(ag.researcher_messages).tool_calls # <<>>
    THEN "tool_node" ELSE "compress_research"

\* a plausible slip: the test lets one search past the quota
QuotaReachedOffByOne(count) == count > MAX_TAVILY_SEARCHES

\* the limit test of tool_node
QuotaReached(count) == count >= MAX_TAVILY_SEARCHES

RECURSIVE ToolLoop(_, _, _, _, _, _)
\* the for loop of tool_node over tool_calls[i..]: count is the local
\* tavily_search_count, obs the observations so far, invoked the number of
\* search invocations issued, failAt the call (0: none) whose tool raises
ToolLoop(tool_calls, i, count, obs, invoked, failAt) ==
    IF i > Len(tool_calls)
    THEN [raised |-> FALSE, count |-> count, observations |-> obs,
          invoked |-> invoked]
    ELSE LET tool_call == tool_calls[i]
             isSearch == tool_call.name = "tavily_search"
         IN IF isSearch /\ QuotaReached(count)
            THEN ToolLoop(tool_calls, i + 1, count,
                          Append(obs, limit_message), invoked, failAt)
            ELSE LET count2 == IF isSearch THEN count + 1 ELSE count
                 IN IF tool_call.name \notin tools_by_name
                    THEN [raised |-> TRUE, count |-> count2,
                          observations |-> obs, invoked |-> invoked]
                    ELSE IF i = failAt
                    THEN [raised |-> TRUE, count |-> count2,
                          observations |-> obs,
                          invoked |-> invoked + (IF isSearch THEN 1 ELSE 0)]
                    ELSE ToolLoop(tool_calls, i + 1, count2,
                                  Append(obs, Observation(tool_call)),
                                  invoked + (IF isSearch THEN 1 ELSE 0),
                                  failAt)

Min(a, b) == IF a < b THEN a ELSE b

\* a plausible slip: a skipped search leaves no observation behind, so the
\* observations zipped with the calls are those of the executed calls only
ToolOutputsWithoutSkipped(observations, tool_calls) ==
    LET executed == SelectSeq(observations, LAMBDA o : o # limit_message)
    IN [k \in 1..Min(Len(executed), Len(tool_calls)) |->
           ToolMessage(executed[k], tool_calls[k].name, tool_calls[k].id)]

\* tool_outputs: zip(observations, tool_calls)
ToolOutputs(observations, tool_calls) ==
    [k \in 1..Min(Len(observations), Len(tool_calls)) |->
        ToolMessage(observations[k], tool_calls[k].name, tool_calls[k].id)]

\* a plausible slip: the search counter is kept in one place for all agents
CommitResearcherSharedCounter(ags, i, new) ==
    [k \in DOMAIN ags |->
        IF k = i THEN new
        ELSE [ags[k] EXCEPT !.tavily_search_count = new.tavily_search_count]]

\* the state update a node of agent i returns, applied to that agent's state
CommitResearcher(ags, i, new) == [ags EXCEPT ![i] = new]

\* llm_call followed by its conditional edge
AgentLlmCall(i, Vocab, MaxTurns) ==
    /\ i \in DOMAIN agents
    /\ agents[i].pc = "llm_call"
    /\ LET ag == agents[i] IN
       \/ \E names \in Vocab \cup {<<>>} :
            /\ names # <<>> => Turns(ag) < MaxTurns
            /\ LET response ==
                     AIMessage(IF names = <<>> THEN "answer" ELSE "",
                               MkCalls(names, Turns(ag) + 1, "query"))
                   ag2 == [ag EXCEPT !.researcher_messages = Append(@, response)]
               IN agents' = CommitResearcher(agents, i,
                                [ag2 EXCEPT !.pc = should_continue(ag2)])
       \/ agents' = [agents EXCEPT ![i].pc = "raised"]
    /\ UNCHANGED searches_executed

\* tool_node
AgentToolNode(i, FailPoints) ==
    /\ i \in DOMAIN agents
    /\ agents[i].pc = "tool_node"
    /\ LET ag == agents[i]
           tool_calls == Last(ag.researcher_messages).tool_calls
       IN \E failAt \in (0..Len(tool_calls)) \cap FailPoints :
            LET r == ToolLoop(tool_calls, 1, ag.tavily_search_count, <<>>, 0, failAt)
            IN /\ searches_executed' =
                     [searches_executed EXCEPT ![i] = @ + r.invoked]
               /\ IF r.raised
                  THEN agents' = [agents EXCEPT ![i].pc = "raised"]
                  ELSE agents' = CommitResearcher(agents, i,
                         [ag EXCEPT
                            !.researcher_messages =
                                @ \o ToolOutputs(r.observations, tool_calls),
                            !.tavily_search_count = r.count,
                            !.pc = "llm_call"])

\* compress_research
AgentCompress(i) ==
    /\ i \in DOMAIN agents
    /\ agents[i].pc = "compress_research"
    /\ \/ agents' = CommitResearcher(agents, i,
                       [agents[i] EXCEPT
                          !.compressed_research = Finding(agents[i].research_topic),
                          !.pc = "END"])
       \/ agents' = [agents EXCEPT ![i].pc = "raised"]
    /\ UNCHANGED searches_executed

-----------------------------------------------------------------------------
(* Research Supervisor (multi_agent_supervisor.py)                          *)

\* a decision of the supervisor model: <<tool name, research topic>> pairs
SupervisorBatches ==
    { << <<"think_tool", "">> >>,
      << <<"ConductResearch", "t1">>, <<"ConductResearch", "t2">> >>,
      << <<"ConductResearch", "t1">>, <<"ConductResearch", "t2">>,
         <<"ConductResearch", "t3">> >>,
      << <<"refine_draft_report", "">>, <<"refine_draft_report", "">> >>,
      << <<"ResearchComplete", "">> >>,
      << <<"refine_draft_report", "">>, <<"ConductResearch", "t3">>,
         <<"think_tool", "">> >>,
      << <<"ConductResearch", "t2">>, <<"ResearchComplete", "">> >> }

\* the decisions left to the model once MaxRichDecisions have been taken
TailBatches ==
    { << <<"think_tool", "">> >>,
      << <<"ResearchComplete", "">> >> }

MkSupervisorCalls(batch, turn) ==
    [k \in 1..Len(batch) |-> ToolCall(batch[k][1], 10 * turn + k, batch[k][2])]

\* the draft the refine tool writes from the current one
NextDraft(draft) ==
    CASE draft = "draft0" -> "draft1"
      [] draft = "draft1" -> "draft2"
      [] draft = "draft2" -> "draft3"
      [] draft = "draft3" -> "draft4"
      [] OTHER -> "draft5"

\* a plausible slip: only the findings of delegations are kept as notes
NotesFromResearchOnly(messages) ==
    LET IsFinding(m) == m.type = "tool" /\ m.name = "ConductResearch"
    IN Contents(SelectSeq(messages, IsFinding))

get_notes_from_tool_calls(messages) ==
    Contents(FilterMessages(messages, {"tool"}))

\* a plausible slip: a ResearchComplete call does not end the run
ExitCriteriaWithoutComplete(iterations, most_recent_message) ==
    \/ iterations >= max_researcher_iterations
    \/ most_recent_message.tool_calls = <<>>

\* a plausible slip: the run ends only once the count is past the maximum
ExitCriteriaPastMaximum(iterations, most_recent_message) ==
    \/ iterations > max_researcher_iterations
    \/ most_recent_message.tool_calls = <<>>
    \/ \E k \in DOMAIN most_recent_message.tool_calls :
          most_recent_message.tool_calls[k].name = "ResearchComplete"

_check_exit_criteria(iterations, most_recent_message) ==
    LET exceeded_iterations == iterations >= max_researcher_iterations
        no_tool_calls == most_recent_message.tool_calls = <<>>
        research_complete ==
            \E k \in DOMAIN most_recent_message.tool_calls :
                most_recent_message.tool_calls[k].name = "ResearchComplete"
    IN exceeded_iterations \/ no_tool_calls \/ research_complete

\* _categorize_tool_calls: the calls of one name, in the order of the batch
CallsNamed(tool_calls, name) ==
    SelectSeq(tool_calls, LAMBDA tc : tc.name = name)

\* _execute_think_tools, when no reflection raises
ThinkMessages(think_calls) ==
    [k \in 1..Len(think_calls) |->
        ToolMessage("reflection", think_calls[k].name, think_calls[k].id)]

\* a plausible slip: the results are listed from the last call to the first
ResearchMessagesReversed(results, research_calls) ==
    LET n == Min(Len(results), Len(research_calls))
    IN [k \in 1..n |->
          ToolMessage(results[n + 1 - k].compressed_research,
                      research_calls[n + 1 - k].name,
                      research_calls[n + 1 - k].id)]

\* a plausible slip: the results are taken in another order than the calls,
\* each call getting the finding of the agent of the next call
ResearchMessagesMisattributed(results, research_calls) ==
    LET n == Min(Len(results), Len(research_calls))
    IN [k \in 1..n |->
          ToolMessage(results[(k % n) + 1].compressed_research,
                      research_calls[k].name, research_calls[k].id)]

\* research_tool_messages: zip(tool_results, conduct_research_calls)
ResearchMessages(results, research_calls) ==
    [k \in 1..Min(Len(results), Len(research_calls)) |->
        ToolMessage(results[k].compressed_research,
                    research_calls[k].name, research_calls[k].id)]

\* a plausible slip: the draft is refined again for every further refine
\* call of the batch
RefineMessagesPerCall(refine_calls, new_draft) ==
    [k \in 1..Len(refine_calls) |->
        ToolMessage(IF k = 1 THEN new_draft ELSE NextDraft(new_draft),
                    refine_calls[k].name, refine_calls[k].id)]

\* a plausible slip: one tool message for the whole batch of refine calls
RefineMessagesFirstCall(refine_calls, new_draft) ==
    <<ToolMessage(new_draft, refine_calls[1].name, refine_calls[1].id)>>

\* the tool messages of _execute_refine_report for the returned draft
RefineMessages(refine_calls, new_draft) ==
    [k \in 1..Len(refine_calls) |->
        ToolMessage(new_draft, refine_calls[k].name, refine_calls[k].id)]

\* a plausible slip: the wait ends with the first agent that has a result
GatherFirstCompleted(ags) == \E k \in DOMAIN ags : ags[k].pc = "END"

\* asyncio.gather(*coros) returns once every awaitable has a result
GatherDone(ags) == \A k \in DOMAIN ags : ags[k].pc = "END"

\* a plausible slip: the counter is not advanced by a decision
SameIterations(n) == n

\* the iteration count a decision writes
NextIterations(n) == n + 1

\* asyncio.gather(*coros) raises as soon as one awaitable has raised
GatherFailed(ags) == \E k \in DOMAIN ags : ags[k].pc = "raised"

\* the node supervisor: one decision, the model answering with one of batches
\* or with no tool call
SupervisorDecides(batches) ==
    /\ sup_pc = "supervisor"
    /\ \/ \E batch \in batches \cup {<<>>} :
            LET response ==
                  AIMessage(IF batch = <<>> THEN "answer" ELSE "",
                            MkSupervisorCalls(batch, research_iterations + 1))
            IN /\ supervisor_messages' = Append(supervisor_messages, response)
               /\ research_iterations' = NextIterations(research_iterations)
               /\ decisions' = decisions + 1
               /\ sup_pc' = "supervisor_tools"
       \/ \* binding or the bound call raised: the unbound model answers
          /\ supervisor_messages' =
                Append(supervisor_messages, AIMessage("answer", <<>>))
          /\ research_iterations' = NextIterations(research_iterations)
          /\ decisions' = decisions + 1
          /\ sup_pc' = "supervisor_tools"
       \/ \* the unbound call raises too: nothing catches it
          /\ sup_pc' = "raised"
          /\ UNCHANGED <<supervisor_messages, research_iterations, decisions>>
    /\ UNCHANGED <<research_brief, draft_report, refine_findings, notes,
                   exit_path, pending, dispatches>>
    /\ UNCHANGED agentVars

Supervisor ==
    SupervisorDecides(IF decisions < MaxRichDecisions
                      THEN SupervisorBatches ELSE TailBatches)

\* a decision that delegates to one agent more than
\* max_concurrent_researchers
OverCapBatches ==
    { [k \in 1..(max_concurrent_researchers + 1) |->
          <<"ConductResearch", IF k % 2 = 1 THEN "t1" ELSE "t2">>] }

\* the supervisor whose first decision goes over the cap
SupervisorOverCap ==
    SupervisorDecides(IF decisions = 0 THEN OverCapBatches ELSE TailBatches)

\* the return of supervisor_tools at an exit criterion
CriteriaExit ==
    /\ notes' = get_notes_from_tool_calls(supervisor_messages)
    /\ sup_pc' = "END"
    /\ exit_path' = "criteria"
    /\ UNCHANGED <<supervisor_messages, research_iterations, research_brief,
                   draft_report, refine_findings, pending, decisions>>

\* a plausible slip: the except branch re-raises after recording the notes
ExceptExitReraises ==
    /\ notes' = get_notes_from_tool_calls(supervisor_messages)
    /\ sup_pc' = "raised"
    /\ exit_path' = "exception"
    /\ pending' = <<>>
    /\ UNCHANGED <<supervisor_messages, research_iterations, research_brief,
                   draft_report, refine_findings, decisions>>

\* a plausible slip: the results the failed batch had produced are emitted
\* with the notes
ExceptExitEmitsPartial ==
    LET done == SelectSeq(agents, LAMBDA ag : ag.pc = "END")
    IN /\ notes' = get_notes_from_tool_calls(supervisor_messages)
                      \o Contents(pending)
                      \o [k \in 1..Len(done) |-> done[k].compressed_research]
       /\ sup_pc' = "END"
       /\ exit_path' = "exception"
       /\ pending' = <<>>
       /\ UNCHANGED <<supervisor_messages, research_iterations, research_brief,
                      draft_report, refine_findings, decisions>>

\* the except branch of supervisor_tools
ExceptExit ==
    /\ notes' = get_notes_from_tool_calls(supervisor_messages)
    /\ sup_pc' = "END"
    /\ exit_path' = "exception"
    /\ pending' = <<>>
    /\ UNCHANGED <<supervisor_messages, research_iterations, research_brief,
                   draft_report, refine_findings, decisions>>

\* a plausible slip: the results of the running batch are findings too
RefineFindingsWithBatch(messages, tool_messages) ==
    get_notes_from_tool_calls(messages \o tool_messages)

\* _execute_refine_report: notes = get_notes_from_tool_calls(supervisor_messages),
\* the history of the state the node was entered with
RefineFindings(messages, tool_messages) ==
    get_notes_from_tool_calls(messages)

\* a plausible slip: the update carries draft_report without the test of
\* refine_calls, so a batch without a refine call writes the empty draft
\* that _execute_refine_report returns for it
DispatchReturnUnguardedDraft(tool_messages) ==
    LET most_recent_message == Last(supervisor_messages)
        refine_calls == CallsNamed(most_recent_message.tool_calls,
                                   "refine_draft_report")
        new_draft == IF refine_calls = <<>> THEN ""
                     ELSE NextDraft(draft_report)
    IN \/ /\ supervisor_messages' =
                supervisor_messages \o tool_messages
                   \o RefineMessages(refine_calls, new_draft)
          /\ draft_report' = new_draft
          /\ refine_findings' = IF refine_calls = <<>> THEN refine_findings
                ELSE RefineFindings(supervisor_messages, tool_messages)
          /\ sup_pc' = "supervisor"
          /\ pending' = <<>>
          /\ UNCHANGED <<research_iterations, research_brief, notes,
                         exit_path, decisions>>
       \/ /\ refine_calls # <<>>
          /\ ExceptExit

\* the end of the try block of supervisor_tools, from the refine call on:
\* tool_messages holds the reflection and research results
DispatchReturn(tool_messages) ==
    LET most_recent_message == Last(supervisor_messages)
        refine_calls == CallsNamed(most_recent_message.tool_calls,
                                   "refine_draft_report")
    IN \/ /\ refine_calls = <<>>
          /\ supervisor_messages' = supervisor_messages \o tool_messages
          /\ sup_pc' = "supervisor"
          /\ pending' = <<>>
          /\ UNCHANGED <<research_iterations, research_brief, draft_report,
                         refine_findings, notes, exit_path, decisions>>
       \/ /\ refine_calls # <<>>
          /\ refine_findings' = RefineFindings(supervisor_messages, tool_messages)
          /\ LET new_draft == NextDraft(draft_report)
             IN /\ supervisor_messages' =
                      supervisor_messages \o tool_messages
                         \o RefineMessages(refine_calls, new_draft)
                /\ draft_report' = new_draft
          /\ sup_pc' = "supervisor"
          /\ pending' = <<>>
          /\ UNCHANGED <<research_iterations, research_brief, notes,
                         exit_path, decisions>>
       \/ \* the refine tool raises
          /\ refine_calls # <<>>
          /\ ExceptExit

\* a plausible slip: the delegations beyond the cap are not started
ResearchCorosCapped(research_calls) ==
    [k \in 1..Min(Len(research_calls), max_concurrent_researchers) |->
        NewResearcher(research_calls[k].args)]

\* _execute_research_calls: one researcher_agent.ainvoke per delegation call,
\* all handed to one asyncio.gather
ResearchCoros(research_calls) ==
    [k \in 1..Len(research_calls) |-> NewResearcher(research_calls[k].args)]

\* supervisor_tools, exit criteria met
SupervisorToolsExit ==
    /\ sup_pc = "supervisor_tools"
    /\ _check_exit_criteria(research_iterations, Last(supervisor_messages))
    /\ CriteriaExit
    /\ UNCHANGED dispatches
    /\ UNCHANGED agentVars

\* supervisor_tools, from its start to the await of gather (or, with no
\* research call, to its return)
SupervisorToolsDispatch ==
    /\ sup_pc = "supervisor_tools"
    /\ ~ _check_exit_criteria(research_iterations, Last(supervisor_messages))
    /\ dispatches' = dispatches + 1
    /\ LET tool_calls == Last(supervisor_messages).tool_calls
           think_calls == CallsNamed(tool_calls, "think_tool")
           research_calls == CallsNamed(tool_calls, "ConductResearch")
       IN \/ \* a reflection raises
             /\ think_calls # <<>>
             /\ ExceptExit
             /\ UNCHANGED agentVars
          \/ /\ research_calls = <<>>
             /\ DispatchReturn(ThinkMessages(think_calls))
             /\ UNCHANGED agentVars
          \/ /\ research_calls # <<>>
             /\ agents' = ResearchCoros(research_calls)
             /\ searches_executed' = [k \in 1..Len(research_calls) |-> 0]
             /\ pending' = ThinkMessages(think_calls)
             /\ sup_pc' = "gather"
             /\ UNCHANGED <<supervisor_messages, research_iterations,
                            research_brief, draft_report, refine_findings,
                            notes, exit_path, decisions>>

\* gather returns: the rest of the try block of supervisor_tools
GatherReturn ==
    /\ sup_pc = "gather"
    /\ GatherDone(agents)
    /\ LET research_calls == CallsNamed(Last(supervisor_messages).tool_calls,
                                        "ConductResearch")
       IN DispatchReturn(pending \o ResearchMessages(agents, research_calls))
    /\ agents' = <<>>
    /\ searches_executed' = <<>>
    /\ UNCHANGED dispatches

\* gather raises: the except branch; the other agents are not cancelled
GatherRaise ==
    /\ sup_pc = "gather"
    /\ GatherFailed(agents)
    /\ ExceptExit
    /\ UNCHANGED dispatches
    /\ UNCHANGED agentVars

-----------------------------------------------------------------------------
(* URL validation (red_team_evaluator.py)                                   *)

\* validate_url(url, timeout = 15, max_retries = 2)
max_retries == 2
max_concurrent_validations == 10
max_concurrent_fetches == 5

\* final status codes a request can end with
Statuses == {101, 200, 204, 301, 304, 400, 401, 403, 404, 429, 500, 503}

\* the body text of a response: without an error marker, with one within the
\* first 4096 characters, with one only after them, or unreadable (text()
\* raises)
Bodies == {"clean", "marker_in_sample", "marker_beyond_sample", "unreadable"}

\* what the HTTP layer does with one GET
RequestOutcomes ==
    [kind : {"response"}, status : Statuses, body : Bodies]
      \cup [kind : {"timeout", "client_error", "exception"},
            status : {0}, body : {"clean"}]

\* _check_error_page applied to the first 4096 characters of the body
_check_error_page(body) == body = "marker_in_sample"

_is_valid_status_code(status_code) ==
    IF 200 <= status_code /\ status_code < 300 THEN TRUE
    ELSE IF status_code < 400 THEN TRUE
    ELSE IF status_code \in {401, 403, 429} THEN TRUE
    ELSE FALSE

\* _check_response_status: <<is_valid, status_code>>
_check_response_status(response) ==
    LET status_code == response.status
    IN IF 200 <= status_code /\ status_code < 300
       THEN IF response.body # "unreadable" /\ _check_error_page(response.body)
            THEN <<FALSE, status_code>>
            ELSE <<TRUE, status_code>>
       ELSE IF _is_valid_status_code(status_code)
            THEN <<TRUE, status_code>>
            ELSE <<FALSE, status_code>>

\* a plausible slip: a timeout is reported as status 408
MakeUrlRequestTimeoutStatus(outcome) ==
    IF outcome.kind = "response"
    THEN _check_response_status(outcome)
    ELSE IF outcome.kind = "timeout" THEN <<FALSE, 408>> ELSE <<FALSE, 0>>

\* _make_url_request: <<is_valid, status_code>>
_make_url_request(outcome) ==
    IF outcome.kind = "response"
    THEN _check_response_status(outcome)
    ELSE <<FALSE, 0>>

\* a plausible slip: the last attempt is not recognised as the last
RetryLoopReturnsLate(is_valid, attempt) == is_valid \/ attempt > max_retries

\* the test that ends the loop of _validate_url_with_retry after an attempt
RetryLoopReturns(is_valid, attempt) == is_valid \/ attempt >= max_retries

\* a plausible slip: `and` for `or` in the test of the parsed URL
ValidateUrlNeedsBothMissing ==
    /\ v_pc = "start"
    /\ IF ~ v_url.scheme /\ ~ v_url.netloc
       THEN /\ v_result' = <<FALSE, 0>>
            /\ v_pc' = "done"
       ELSE /\ v_pc' = "request"
            /\ UNCHANGED v_result
    /\ UNCHANGED <<v_url, v_attempt, v_log, v_sleeps>>

\* validate_url up to its first request
ValidateUrl ==
    /\ v_pc = "start"
    /\ IF ~ v_url.scheme \/ ~ v_url.netloc
       THEN /\ v_result' = <<FALSE, 0>>
            /\ v_pc' = "done"
       ELSE /\ v_pc' = "request"
            /\ UNCHANGED v_result
    /\ UNCHANGED <<v_url, v_attempt, v_log, v_sleeps>>

\* one pass of the loop of _validate_url_with_retry, to its return or to
\* the await of the sleep
ValidateAttempt ==
    /\ v_pc = "request"
    /\ IF v_attempt <= max_retries
       THEN \E outcome \in RequestOutcomes :
              LET r == _make_url_request(outcome)
              IN /\ v_log' = Append(v_log, [outcome |-> outcome, result |-> r])
                 /\ IF RetryLoopReturns(r[1], v_attempt)
                    THEN /\ v_result' = r
                         /\ v_pc' = "done"
                    ELSE /\ v_pc' = "sleep"
                         /\ UNCHANGED v_result
       ELSE \* the range of the loop is used up: return False, 0
            /\ v_result' = <<FALSE, 0>>
            /\ v_pc' = "done"
            /\ UNCHANGED v_log
    /\ UNCHANGED <<v_url, v_attempt, v_sleeps>>

\* asyncio.sleep(1), then the next pass of the loop
ValidateSleep ==
    /\ v_pc = "sleep"
    /\ v_sleeps' = v_sleeps + 1
    /\ v_attempt' = v_attempt + 1
    /\ v_pc' = "request"
    /\ UNCHANGED <<v_url, v_log, v_result>>

-----------------------------------------------------------------------------
(* Objectivity scorer (red_team_evaluator.py), in fixed point: a metric is  *)
(* held in hundredths, the score in millionths                              *)

\* bounds on the lists the scorer counts
MaxUnsupported == 4
MaxIssues == 3

\* metric values the audits may hand over, in hundredths
MetricValues == {-100, 0, 50, 100, 200}
FewMetricValues == {-100, 0, 200}

ScoreInputs ==
    [one_sided_score : MetricValues,
     source_credibility_score : MetricValues,
     source_diversity_score : FewMetricValues,
     quantitative_ratio : FewMetricValues,
     consistency_score : MetricValues,
     unsupported : 0..MaxUnsupported,
     numerical_inconsistencies : 0..MaxIssues,
     contextual_mismatches : 0..MaxIssues]

Max(a, b) == IF a > b THEN a ELSE b

\* a plausible slip: the score is returned as computed
Unclamped(score) == score

\* max(0.0, min(1.0, score)), in millionths
Clamp01(score) == Max(0, Min(1000000, score))

\* a plausible slip: the one-sidedness enters the sum without being inverted
\* and the penalties are not capped
ScoreWithoutInversion(in) ==
    Clamp01((in.one_sided_score * 35 + in.source_credibility_score * 25
               + in.source_diversity_score * 15 + in.quantitative_ratio * 10
               + in.consistency_score * 15)
            * (100 - in.unsupported * 5
                 - (in.numerical_inconsistencies + in.contextual_mismatches) * 3))

_calculate_objectivity_score(in) ==
    LET bias_component == (100 - in.one_sided_score) * 35
        source_component == in.source_credibility_score * 25
        diversity_component == in.source_diversity_score * 15
        quantitative_component == in.quantitative_ratio * 10
        consistency_component == in.consistency_score * 15
        unsupported_penalty == Min(in.unsupported * 5, 15)
        consistency_penalty ==
            Min((in.numerical_inconsistencies + in.contextual_mismatches) * 3, 15)
        score == (bias_component + source_component + diversity_component
                    + quantitative_component + consistency_component)
                 * (100 - unsupported_penalty - consistency_penalty)
    IN Clamp01(score)

CalculateScore ==
    /\ s_pc = "ready"
    /\ s_out' = _calculate_objectivity_score(s_in)
    /\ s_pc' = "done"
    /\ UNCHANGED s_in

-----------------------------------------------------------------------------
(* Claim-source consistency (red_team_evaluator.py); a score is held as the *)
(* fraction <<numerator, denominator>>                                      *)

\* bound on the verified claims the audit reports
MaxVerified == 3
MaxSources == 2
MaxSourceLines == 2
MaxUrls == 11
MaxFetches == 6

\* what _parse_json_response makes of the audit's answer: None, an empty
\* object, or an object with its counts (a key that is absent reads as 0)
Analyses ==
    [kind : {"none", "empty"}, verified_claims_count : {0},
     numerical_inconsistencies : {0}, contextual_mismatches : {0}]
    \cup
    [kind : {"object"}, verified_claims_count : 0..MaxVerified,
     numerical_inconsistencies : 0..MaxIssues,
     contextual_mismatches : 0..MaxIssues]

ConsistencyInputs == [has_content : BOOLEAN, analysis : Analyses]

\* ClaimSourceConsistency(): the defaults of the dataclass
DefaultClaimSourceConsistency ==
    [numerical_inconsistencies |-> 0, contextual_mismatches |-> 0,
     verified_claims_count |-> 0, consistency_score |-> <<0, 1>>]

\* the return value of _verify_claim_source_consistency
_verify_claim_source_consistency(in) ==
    IF ~ in.has_content
    THEN DefaultClaimSourceConsistency
    ELSE IF in.analysis.kind = "object"
    THEN LET total_issues == in.analysis.numerical_inconsistencies
                               + in.analysis.contextual_mismatches
             verified_count == in.analysis.verified_claims_count
             total_claims == verified_count + total_issues
         IN [numerical_inconsistencies |-> in.analysis.numerical_inconsistencies,
             contextual_mismatches |-> in.analysis.contextual_mismatches,
             verified_claims_count |-> verified_count,
             consistency_score |->
                 IF total_claims > 0 THEN <<verified_count, total_claims>>
                 ELSE <<1, 1>>]
    ELSE DefaultClaimSourceConsistency

VerifyConsistency ==
    /\ c_pc = "ready"
    /\ \/ /\ c_out' = _verify_claim_source_consistency(c_in)
          /\ c_pc' = "done"
       \/ \* the call of the evaluator model raises
          /\ c_in.has_content
          /\ c_pc' = "raised"
          /\ UNCHANGED c_out
    /\ UNCHANGED c_in

-----------------------------------------------------------------------------
(* Recommendations (red_team_evaluator.py); metrics in hundredths; a        *)
(* recommendation is held as the name of the rule that wrote it             *)

\* metric values on both sides of every threshold, and list lengths
RecommendInputs ==
    [one_sided_score : {0, 60, 61},
     source_diversity_score : {0, 50},
     quantitative_ratio : {29, 30},
     source_credibility_score : {50, 60},
     consistency_score : {0, 80},
     unsupported : {0, 2},
     missing_counter_evidence : {0, 1},
     numerical_inconsistencies : {0, 1},
     contextual_mismatches : {0, 3}]

\* the recommendation a rule appends when its condition holds
When(condition, recommendation) ==
    IF condition THEN <<recommendation>> ELSE <<>>

_add_bias_recommendations(bias) ==
    When(bias.one_sided_score > 60, "high_one_sided_score")
    \o When(bias.source_diversity_score < 50, "low_source_diversity")
    \o When(bias.quantitative_ratio < 30, "low_quantitative_data")

_add_source_recommendations(sources) ==
    When(sources.source_credibility_score < 60, "source_quality_concerns")

_add_claim_recommendations(claims) ==
    When(claims.unsupported > 0, "unsupported_claims")
    \o When(claims.missing_counter_evidence > 0, "need_counter_evidence")
    \o When(claims.numerical_inconsistencies > 0, "numerical_inconsistencies")
    \o When(claims.contextual_mismatches > 0, "contextual_mismatches")
    \o When(claims.consistency_score < 80, "low_consistency_score")

\* a plausible slip: the confirmation is appended whatever was found
RecommendationsAlwaysConfirm(in) ==
    _add_bias_recommendations(in) \o _add_source_recommendations(in)
       \o _add_claim_recommendations(in) \o <<"good_objectivity">>

_generate_recommendations(in) ==
    LET recommendations ==
          _add_bias_recommendations(in) \o _add_source_recommendations(in)
             \o _add_claim_recommendations(in)
    IN IF recommendations = <<>> THEN <<"good_objectivity">>
       ELSE recommendations

GenerateRecommendations ==
    /\ r_pc = "ready"
    /\ r_out' = _generate_recommendations(r_in)
    /\ r_pc' = "done"
    /\ UNCHANGED r_in

-----------------------------------------------------------------------------
(* The audits (red_team_evaluator.py): one model response each, parsed by   *)
(* _parse_json_response; a list is held as its length, a URL as a number    *)

Audits == {"bias", "sources", "claims", "consistency"}

Urls == 1..MaxSources

\* a response that carries every key the audit reads
FullAnalysis(audit) ==
    CASE audit = "bias" ->
           [one_sided_score |-> 90, missing_counter_evidence |-> 1,
            confirmation_bias_indicators |-> 1,
            source_diversity_score |-> 20, quantitative_ratio |-> 10]
      [] audit = "sources" ->
           [total_sources |-> 7, primary_sources |-> 1,
            secondary_sources |-> 2, academic_sources |-> 3,
            source_credibility_score |-> 90, missing_citations |-> 1]
      [] audit = "claims" ->
           [unsupported |-> 2, missing_counter_evidence |-> 1]
      [] audit = "consistency" ->
           [numerical_inconsistencies |-> 1, contextual_mismatches |-> 1,
            verified_claims_count |-> 2]

\* what _parse_json_response returns: None, or the object of the response,
\* which may lack any of the keys
\* whose numbers (numeric) may be values int() and float() do not convert
ParsedResponses(audit) ==
    {[parsed |-> FALSE, object |-> <<>>, numeric |-> TRUE]}
    \cup {[parsed |-> TRUE, object |-> [k \in keys |-> FullAnalysis(audit)[k]],
           numeric |-> numeric] :
            keys \in SUBSET DOMAIN FullAnalysis(audit),
            numeric \in IF audit = "sources" THEN BOOLEAN ELSE {TRUE}}

\* `if analysis:` an object was parsed and it is not empty
Truthy(analysis) == analysis.parsed /\ DOMAIN analysis.object # {}

\* analysis.get(key, default)
Get(analysis, key, default) ==
    IF key \in DOMAIN analysis.object THEN analysis.object[key] ELSE default

\* BiasMetrics(): the defaults of the dataclass
DefaultBiasMetrics ==
    [one_sided_score |-> 0, missing_counter_evidence |-> 0,
     confirmation_bias_indicators |-> 0, source_diversity_score |-> 0,
     quantitative_ratio |-> 0]

\* SourceQualityMetrics(): the defaults of the dataclass
DefaultSourceQualityMetrics ==
    [total_sources |-> 0, valid_sources |-> 0, primary_sources |-> 0,
     secondary_sources |-> 0, academic_sources |-> 0,
     source_credibility_score |-> 0, missing_citations |-> 0,
     invalid_sources |-> {}]

_analyze_bias(analysis) ==
    IF Truthy(analysis)
    THEN [one_sided_score |-> Get(analysis, "one_sided_score", 50),
          missing_counter_evidence |->
              Get(analysis, "missing_counter_evidence", 0),
          confirmation_bias_indicators |->
              Get(analysis, "confirmation_bias_indicators", 0),
          source_diversity_score |->
              Get(analysis, "source_diversity_score", 50),
          quantitative_ratio |-> Get(analysis, "quantitative_ratio", 50)]
    ELSE DefaultBiasMetrics

_parse_source_analysis_response(analysis, sources, valid, invalid) ==
    [total_sources |-> Get(analysis, "total_sources", Cardinality(sources)),
     valid_sources |-> Cardinality(valid),
     primary_sources |-> Get(analysis, "primary_sources", 0),
     secondary_sources |-> Get(analysis, "secondary_sources", 0),
     academic_sources |-> Get(analysis, "academic_sources", 0),
     source_credibility_score |->
         Get(analysis, "source_credibility_score", 50),
     missing_citations |-> Get(analysis, "missing_citations", 0),
     invalid_sources |-> invalid]

\* int(...) or float(...) of _parse_source_analysis_response raises
SourceConversionRaises(analysis) ==
    /\ Truthy(analysis)
    /\ ~ analysis.numeric
    /\ DOMAIN analysis.object
          \cap {"total_sources", "primary_sources", "secondary_sources",
                "academic_sources", "source_credibility_score"} # {}

\* a plausible slip: the invalid sources are read off the results too
SourceListsFromResults(sources, url_validation) ==
    [valid_sources |->
        {url \in DOMAIN url_validation : url_validation[url]},
     invalid_sources |->
        {url \in DOMAIN url_validation : ~ url_validation[url]}]

\* the locals valid_sources and invalid_sources of _analyze_sources;
\* url_validation has an entry for each source whose validation returned
SourceLists(sources, url_validation) ==
    LET valid_sources ==
            {url \in DOMAIN url_validation : url_validation[url]}
    IN [valid_sources |-> valid_sources,
        invalid_sources |-> {url \in sources : url \notin valid_sources}]

\* a plausible slip: the fallback of the source audit is the bare record
AnalyzeSourcesBareFallback(analysis, sources, url_validation) ==
    LET lists == SourceLists(sources, url_validation)
    IN IF Truthy(analysis)
       THEN _parse_source_analysis_response(analysis, sources,
                                            lists.valid_sources,
                                            lists.invalid_sources)
       ELSE DefaultSourceQualityMetrics

\* url_validation: the results of validate_urls
_analyze_sources(analysis, sources, url_validation) ==
    LET lists == SourceLists(sources, url_validation)
    IN IF Truthy(analysis)
       THEN _parse_source_analysis_response(analysis, sources,
                                            lists.valid_sources,
                                            lists.invalid_sources)
       ELSE [DefaultSourceQualityMetrics EXCEPT
               !.total_sources = Cardinality(sources),
               !.source_credibility_score = 50]

_verify_claims(analysis) ==
    IF Truthy(analysis)
    THEN [unsupported |-> Get(analysis, "unsupported", 0),
          missing_counter_evidence |->
              Get(analysis, "missing_counter_evidence", 0)]
    ELSE [unsupported |-> 0, missing_counter_evidence |-> 0]

\* the consistency audit of a non-empty content map on this response
ConsistencyAudit(analysis) ==
    _verify_claim_source_consistency(
       [has_content |-> TRUE,
        analysis |->
          [kind |-> IF ~ analysis.parsed THEN "none"
                    ELSE IF Truthy(analysis) THEN "object" ELSE "empty",
           verified_claims_count |-> Get(analysis, "verified_claims_count", 0),
           numerical_inconsistencies |->
               Get(analysis, "numerical_inconsistencies", 0),
           contextual_mismatches |->
               Get(analysis, "contextual_mismatches", 0)]])

\* the extracted sources and the results of validate_urls: whether it found
\* the source valid, for each source whose validation did not raise
ValidatedSources ==
    UNION {{[sources |-> sources, url_validation |-> url_validation] :
              url_validation \in
                 UNION {[returned -> BOOLEAN] : returned \in SUBSET sources}} :
           sources \in SUBSET Urls}

AuditInputs ==
    UNION {{[audit |-> audit, analysis |-> analysis, sources |-> v.sources,
             url_validation |-> v.url_validation] :
              analysis \in ParsedResponses(audit), v \in ValidatedSources} :
           audit \in Audits}

\* one audit, from the model's response to the audit's record
RunAudit ==
    /\ a_pc = "ready"
    /\ ~ (a_in.audit = "sources" /\ SourceConversionRaises(a_in.analysis))
    /\ a_out' =
         CASE a_in.audit = "bias" -> _analyze_bias(a_in.analysis)
           [] a_in.audit = "sources" ->
                _analyze_sources(a_in.analysis, a_in.sources,
                                 a_in.url_validation)
           [] a_in.audit = "claims" -> _verify_claims(a_in.analysis)
           [] a_in.audit = "consistency" -> ConsistencyAudit(a_in.analysis)
    /\ a_lists' = IF a_in.audit = "sources"
                  THEN SourceLists(a_in.sources, a_in.url_validation)
                  ELSE a_lists
    /\ a_pc' = "audited"
    /\ UNCHANGED a_in

\* the source audit fails on a number it cannot convert
AuditRaise ==
    /\ a_pc = "ready"
    /\ a_in.audit = "sources"
    /\ SourceConversionRaises(a_in.analysis)
    /\ a_lists' = SourceLists(a_in.sources, a_in.url_validation)
    /\ a_pc' = "raised"
    /\ UNCHANGED <<a_in, a_out>>

\* evaluate_report goes on to _calculate_objectivity_score
AuditContinue ==
    /\ a_pc = "audited"
    /\ a_pc' = "scoring"
    /\ UNCHANGED <<a_in, a_out, a_lists>>

-----------------------------------------------------------------------------
(* Fetch of the content of a source (red_team_evaluator.py)                 *)

\* what the HTTP layer does with the GET of a fetch; the body may be empty
FetchOutcomes ==
    RequestOutcomes \cup [kind : {"response"}, status : Statuses,
                          body : {"empty"}]

\* Python's None
None == "None"

\* the text of a page after the tags are stripped and the blanks collapsed
CleanedText(body) == IF body = "empty" THEN "" ELSE "text"

\* the return value of fetch_source_content
fetch_source_content(outcome) ==
    IF outcome.kind = "response"
    THEN IF outcome.status = 200 /\ outcome.body # "unreadable"
         THEN CleanedText(outcome.body)
         ELSE None
    ELSE None

FetchSourceContent ==
    /\ f_pc = "ready"
    /\ f_out' = fetch_source_content(f_in)
    /\ f_pc' = "done"
    /\ UNCHANGED f_in

-----------------------------------------------------------------------------
(* Parallel groups under a semaphore (red_team_evaluator.py): validate_urls *)
(* and _fetch_source_content_map. gather starts the members in the order of *)
(* the list and the semaphore admits its waiters in that order, so          *)
(* g_tasks holds the members admitted so far, the others wait               *)

\* max_concurrent of the group
MaxConcurrent(kind) ==
    IF kind = "validate" THEN max_concurrent_validations
    ELSE max_concurrent_fetches

\* what the GET of a member's fetch may do
FetchCases ==
    {[kind |-> "response", status |-> 200, body |-> "clean"],
     [kind |-> "response", status |-> 200, body |-> "empty"],
     [kind |-> "response", status |-> 404, body |-> "clean"],
     [kind |-> "timeout", status |-> 0, body |-> "clean"]}

\* a member that holds a slot and has not finished: no outcome yet
Admitted ==
    [state |-> "running",
     outcome |-> [kind |-> "pending", status |-> 0, body |-> "clean"]]

\* the URLs of validate_urls, at most one of them (malformed) so broken
\* that urlparse raises on it; the citation numbers of the source map
GroupInputs ==
    UNION {{[kind |-> "validate", members |-> [i \in 1..n |-> i],
             malformed |-> malformed] :
              malformed \in {{}} \cup {{i} : i \in 1..n}} :
           n \in 0..MaxUrls}
    \cup {[kind |-> "fetch", members |-> [i \in 1..n |-> step * i],
           malformed |-> {}] :
            n \in 0..MaxFetches, step \in 1..2}

InFlight == {i \in DOMAIN g_tasks : g_tasks[i].state = "running"}

\* a plausible slip: one member more than max_concurrent is admitted
SlotFreeOffByOne(in_flight, kind) == in_flight <= MaxConcurrent(kind)

\* the semaphore has a slot
SlotFree(in_flight, kind) == in_flight < MaxConcurrent(kind)

\* `async with semaphore:` the next member of the list is admitted
GroupAdmit ==
    /\ g_pc = "gathering"
    /\ Len(g_tasks) < Len(g_in.members)
    /\ SlotFree(Cardinality(InFlight), g_in.kind)
    /\ g_tasks' = Append(g_tasks, Admitted)
    /\ UNCHANGED <<g_in, g_pc, g_out>>

\* a plausible slip: whatever was fetched is entered
ContentMapEntersAll(content_map, citation_num, content) ==
    IF content # None
    THEN [c \in DOMAIN content_map \cup {citation_num} |->
            IF c = citation_num THEN content ELSE content_map[c]]
    ELSE content_map

\* `if content: content_map[citation_num] = content`
ContentMapAfter(content_map, citation_num, content) ==
    IF content # None /\ content # ""
    THEN [c \in DOMAIN content_map \cup {citation_num} |->
            IF c = citation_num THEN content ELSE content_map[c]]
    ELSE content_map

\* a member finishes and gives its slot back: validate_with_semaphore
\* stores the result of its URL, fetch_with_semaphore the content it got
GroupMemberDone ==
    /\ g_pc = "gathering"
    /\ \E i \in InFlight \ g_in.malformed :
          IF g_in.kind = "validate"
          THEN /\ g_tasks' = [g_tasks EXCEPT ![i].state = "done"]
               /\ g_out' = [u \in DOMAIN g_out \cup {g_in.members[i]} |-> TRUE]
          ELSE \E outcome \in FetchCases :
                 LET content == fetch_source_content(outcome)
                 IN /\ g_tasks' = [g_tasks EXCEPT
                                     ![i] = [state |-> "done",
                                             outcome |-> outcome]]
                    /\ g_out' = ContentMapAfter(g_out, g_in.members[i],
                                                content)
    /\ UNCHANGED <<g_in, g_pc>>

\* validate_url raises (urlparse on a malformed URL): the slot is given
\* back, nothing is stored, gather keeps the exception
GroupMemberRaise ==
    /\ g_pc = "gathering"
    /\ g_in.kind = "validate"
    /\ \E i \in InFlight \cap g_in.malformed :
          g_tasks' = [g_tasks EXCEPT ![i].state = "raised"]
    /\ UNCHANGED <<g_in, g_pc, g_out>>

\* gather returns once every member has finished
GroupReturn ==
    /\ g_pc = "gathering"
    /\ Len(g_tasks) = Len(g_in.members)
    /\ InFlight = {}
    /\ g_pc' = "returned"
    /\ UNCHANGED <<g_in, g_tasks, g_out>>

-----------------------------------------------------------------------------
(* finalize_report (research_agent_full.py) around evaluate_report          *)

\* what the try block of finalize_report runs, in order
EvaluationSteps ==
    <<"RedTeamEvaluator", "extract_sources_from_report", "_analyze_bias",
      "_analyze_sources", "_verify_claims", "_fetch_source_content_map",
      "_verify_claim_source_consistency", "_calculate_objectivity_score",
      "_generate_recommendations", "_create_objectivity_score",
      "_log_evaluation_result">>

FinalizeInputs ==
    [main_report : {"", "report A", "report B"},
     research_query : {"", "query"}]

\* finalize_report up to the try block
FinalizeStart ==
    /\ z_pc = "start"
    /\ IF z_in.main_report = ""
       THEN /\ z_out' = <<>>
            /\ z_pc' = "returned"
            /\ UNCHANGED z_step
       ELSE /\ z_pc' = "try"
            /\ z_step' = 1
            /\ UNCHANGED z_out
    /\ UNCHANGED z_in

\* one step of the evaluation completes; after the last, the return of the
\* try block
EvaluateStep ==
    /\ z_pc = "try"
    /\ z_step' = z_step + 1
    /\ IF z_step = Len(EvaluationSteps)
       THEN /\ z_out' = [main_report |-> z_in.main_report,
                         red_team_evaluation |-> "ObjectivityScore",
                         messages |-> <<"Red team evaluation completed">>]
            /\ z_pc' = "returned"
       ELSE UNCHANGED <<z_pc, z_out>>
    /\ UNCHANGED z_in

\* the step under way raises an Exception
EvaluateRaise ==
    /\ z_pc = "try"
    /\ z_pc' = "except"
    /\ UNCHANGED <<z_in, z_step, z_out>>

\* a plausible slip: the handler logs and raises again
ExceptReraises ==
    /\ z_pc = "except"
    /\ z_pc' = "raised"
    /\ UNCHANGED <<z_in, z_step, z_out>>

\* `except Exception`: _log_step, which swallows its own errors, then the
\* fallback
ExceptFallback ==
    /\ z_pc = "except"
    /\ z_out' = [main_report |-> z_in.main_report,
                 messages |->
                   <<"Report finalized (fallback: evaluation step failed)">>]
    /\ z_pc' = "returned"
    /\ UNCHANGED <<z_in, z_step>>

-----------------------------------------------------------------------------
(* Removal of invalid sources (report_productor.py). A report is a sequence *)
(* of sections, a section a header and lines, a line a citation number and  *)
(* the URL it names, a URL the sequence of the pieces of its text           *)

ReportUrls ==
    {<<"http://", "a.com">>, <<"http://", "a.com", "/b">>,
     <<"http://", "b.com">>}

\* the text of a line: the citation marker, then the URL
LineText(line) == <<"[n]">> \o line.url

\* `s in t` on text
Contains(s, t) ==
    \E i \in 0..(Len(t) - Len(s)) : SubSeq(t, i + 1, i + Len(s)) = s

\* Sources sections as the report writer numbers them: 1, 2, ... in order
SourcesSections ==
    {[header |-> "Sources",
      lines |-> [i \in DOMAIN urls |-> [num |-> i, url |-> urls[i]]]] :
        urls \in UNION {[1..n -> ReportUrls] : n \in 0..MaxSourceLines}}

\* a section of the body: at most one line, which may cite a URL inline
BodySections ==
    {[header |-> "Findings", lines |-> <<>>]}
    \cup {[header |-> "Findings", lines |-> <<[num |-> c, url |-> u]>>] :
            c \in 1..MaxSourceLines, u \in ReportUrls}

\* reports with no Sources section, with one at the end, with one inside
Reports ==
    {<<body>> : body \in BodySections}
    \cup {<<body, sources>> :
            body \in BodySections, sources \in SourcesSections}
    \cup {<<body, sources, tail>> :
            body \in BodySections, sources \in SourcesSections,
            tail \in BodySections}

CleanInputs == [report : Reports, invalid_urls : SUBSET ReportUrls]

_remove_invalid_urls_from_sources(report, invalid_urls) ==
    LET Kept(line) ==
          ~ \E invalid_url \in invalid_urls :
               Contains(invalid_url, LineText(line))
    IN IF ~ \E i \in DOMAIN report : report[i].header = "Sources"
       THEN report
       ELSE [i \in DOMAIN report |->
               IF report[i].header = "Sources"
               THEN [report[i] EXCEPT !.lines = SelectSeq(@, Kept)]
               ELSE report[i]]

\* instructions 6 and 7 of the prompt, followed: the lines of the Sources
\* section numbered 1, 2, ... in order
Renumbered(report) ==
    [i \in DOMAIN report |->
       IF report[i].header = "Sources"
       THEN [report[i] EXCEPT
               !.lines = [k \in DOMAIN @ |-> [@[k] EXCEPT !.num = k]]]
       ELSE report[i]]

\* what the writer model may answer: the report with the instructions
\* followed, or the report as it was sent
WriterAnswers(report) == {Renumbered(report), report}

\* fix_report up to the call of the writer model
RemoveInvalidUrls ==
    /\ k_pc = "ready"
    /\ k_out' = _remove_invalid_urls_from_sources(k_in.report,
                                                  k_in.invalid_urls)
    /\ k_pc' = "cleaned"
    /\ UNCHANGED k_in

\* fix_report returns the content of the writer model's answer
WriterReturn ==
    /\ k_pc = "cleaned"
    /\ \E answer \in WriterAnswers(k_out) : k_out' = answer
    /\ k_pc' = "fixed"
    /\ UNCHANGED k_in

\* the call of the writer model fails; fix_report does not catch it
WriterRaise ==
    /\ k_pc = "cleaned"
    /\ k_pc' = "raised"
    /\ UNCHANGED <<k_in, k_out>>

-----------------------------------------------------------------------------
(* Specifications                                                           *)

IdleSupervisor ==
    /\ sup_pc = "idle"
    /\ supervisor_messages = <<>>
    /\ research_iterations = 0
    /\ research_brief = ""
    /\ draft_report = ""
    /\ refine_findings = <<>>
    /\ dispatches = 0
    /\ notes = <<>>
    /\ exit_path = "none"
    /\ pending = <<>>
    /\ decisions = 0

IdleAgents == agents = <<>> /\ searches_executed = <<>>

IdleValidate ==
    /\ v_url = [scheme |-> FALSE, netloc |-> FALSE]
    /\ v_pc = "idle"
    /\ v_attempt = 0
    /\ v_log = <<>>
    /\ v_sleeps = 0
    /\ v_result = <<FALSE, 0>>

IdleScore == s_in = <<>> /\ s_pc = "idle" /\ s_out = 0

IdleConsistency == c_in = <<>> /\ c_pc = "idle" /\ c_out = <<>>

IdleRecommend == r_in = <<>> /\ r_pc = "idle" /\ r_out = <<>>

IdleAudit == a_in = <<>> /\ a_pc = "idle" /\ a_out = <<>> /\ a_lists = <<>>

IdleFetch == f_in = <<>> /\ f_pc = "idle" /\ f_out = <<>>

IdleGroup == g_in = <<>> /\ g_pc = "idle" /\ g_tasks = <<>> /\ g_out = <<>>

IdleFinalize ==
    z_in = <<>> /\ z_pc = "idle" /\ z_step = 0 /\ z_out = <<>>

IdleClean == k_in = <<>> /\ k_pc = "idle" /\ k_out = <<>>

\* no part of the evaluator is running
IdleEvaluator ==
    /\ IdleRecommend
    /\ IdleAudit
    /\ IdleFetch
    /\ IdleGroup
    /\ IdleFinalize
    /\ IdleClean

\* the supervisor subgraph is entered from write_draft_report
Init ==
    /\ sup_pc = "supervisor"
    /\ supervisor_messages =
          <<HumanMessage("here_is_the_draft_report"), HumanMessage("brief")>>
    /\ research_iterations = 0
    /\ research_brief = "brief"
    /\ draft_report = "draft0"
    /\ refine_findings = <<>>
    /\ dispatches = 0
    /\ notes = <<>>
    /\ exit_path = "none"
    /\ pending = <<>>
    /\ decisions = 0
    /\ IdleAgents
    /\ IdleValidate
    /\ IdleScore
    /\ IdleConsistency
    /\ IdleEvaluator

Next ==
    \/ Supervisor /\ UNCHANGED <<valVars, scoreVars, consVars, evalVars>>
    \/ SupervisorToolsExit /\ UNCHANGED <<valVars, scoreVars, consVars, evalVars>>
    \/ SupervisorToolsDispatch /\ UNCHANGED <<valVars, scoreVars, consVars, evalVars>>
    \/ GatherReturn /\ UNCHANGED <<valVars, scoreVars, consVars, evalVars>>
    \/ GatherRaise /\ UNCHANGED <<valVars, scoreVars, consVars, evalVars>>
    \/ \E i \in DOMAIN agents :
          AgentLlmCall(i, DelegatedBatches, MaxDelegatedTurns) /\ UNCHANGED <<supVars, valVars, scoreVars, consVars, evalVars>>
    \/ \E i \in DOMAIN agents :
          AgentToolNode(i, DelegatedFailPoints) /\ UNCHANGED <<supVars, valVars, scoreVars, consVars, evalVars>>
    \/ \E i \in DOMAIN agents :
          AgentCompress(i) /\ UNCHANGED <<supVars, valVars, scoreVars, consVars, evalVars>>

Spec == Init /\ [][Next]_vars

\* the same run with a supervisor that delegates beyond the cap
NextOverCap ==
    \/ SupervisorOverCap /\ UNCHANGED <<valVars, scoreVars, consVars, evalVars>>
    \/ SupervisorToolsExit /\ UNCHANGED <<valVars, scoreVars, consVars, evalVars>>
    \/ SupervisorToolsDispatch /\ UNCHANGED <<valVars, scoreVars, consVars, evalVars>>
    \/ GatherReturn /\ UNCHANGED <<valVars, scoreVars, consVars, evalVars>>
    \/ GatherRaise /\ UNCHANGED <<valVars, scoreVars, consVars, evalVars>>
    \/ \E i \in DOMAIN agents :
          AgentLlmCall(i, DelegatedBatches, MaxDelegatedTurns) /\ UNCHANGED <<supVars, valVars, scoreVars, consVars, evalVars>>
    \/ \E i \in DOMAIN agents :
          AgentToolNode(i, DelegatedFailPoints) /\ UNCHANGED <<supVars, valVars, scoreVars, consVars, evalVars>>
    \/ \E i \in DOMAIN agents :
          AgentCompress(i) /\ UNCHANGED <<supVars, valVars, scoreVars, consVars, evalVars>>

SpecOverCap == Init /\ [][NextOverCap]_vars

FairSpec == Spec /\ WF_vars(Next)

\* one Sub-Researcher Agent, started the way a delegation starts it
InitResearcher ==
    /\ IdleSupervisor
    /\ \E topic \in Topics : agents = <<NewResearcher(topic)>>
    /\ searches_executed = <<0>>
    /\ IdleValidate
    /\ IdleScore
    /\ IdleConsistency
    /\ IdleEvaluator

NextResearcher ==
    \/ AgentLlmCall(1, ResearcherBatches, MaxAgentTurns) /\ UNCHANGED <<supVars, valVars, scoreVars, consVars, evalVars>>
    \/ AgentToolNode(1, ResearcherFailPoints) /\ UNCHANGED <<supVars, valVars, scoreVars, consVars, evalVars>>
    \/ AgentCompress(1) /\ UNCHANGED <<supVars, valVars, scoreVars, consVars, evalVars>>

SpecResearcher == InitResearcher /\ [][NextResearcher]_vars

\* The same agent with no bound on its turns. llm_call's edge and tool_node
\* read the last message and the counter only, so this specification keeps
\* the last message of the history and drops what precedes it (and does not
\* count the searches issued): a run that repeats a turn revisits a state.
LoopLlmCall ==
    /\ agents[1].pc = "llm_call"
    /\ LET ag == agents[1] IN
       \/ \E names \in ResearcherBatches \cup {<<>>} :
            LET response ==
                  AIMessage(IF names = <<>> THEN "answer" ELSE "",
                            MkCalls(names, 1, "query"))
                ag2 == [ag EXCEPT !.researcher_messages = <<response>>]
            IN agents' = CommitResearcher(agents, 1,
                             [ag2 EXCEPT !.pc = should_continue(ag2)])
       \/ agents' = [agents EXCEPT ![1].pc = "raised"]
    /\ UNCHANGED searches_executed

LoopToolNode ==
    /\ agents[1].pc = "tool_node"
    /\ LET ag == agents[1]
           tool_calls == Last(ag.researcher_messages).tool_calls
       IN \E failAt \in 0..Len(tool_calls) :
            LET r == ToolLoop(tool_calls, 1, ag.tavily_search_count, <<>>, 0, failAt)
            IN IF r.raised
               THEN agents' = [agents EXCEPT ![1].pc = "raised"]
               ELSE agents' = CommitResearcher(agents, 1,
                      [ag EXCEPT
                         !.researcher_messages =
                             <<Last(ToolOutputs(r.observations, tool_calls))>>,
                         !.tavily_search_count = r.count,
                         !.pc = "llm_call"])
    /\ UNCHANGED searches_executed

NextResearcherLoop ==
    \/ LoopLlmCall /\ UNCHANGED <<supVars, valVars, scoreVars, consVars, evalVars>>
    \/ LoopToolNode /\ UNCHANGED <<supVars, valVars, scoreVars, consVars, evalVars>>
    \/ AgentCompress(1) /\ UNCHANGED <<supVars, valVars, scoreVars, consVars, evalVars>>

\* every node that is scheduled eventually runs
SpecResearcherLoop ==
    InitResearcher /\ [][NextResearcherLoop]_vars /\ WF_vars(NextResearcherLoop)

\* validate_url called on one URL
InitValidate ==
    /\ IdleSupervisor
    /\ IdleAgents
    /\ v_url \in [scheme : BOOLEAN, netloc : BOOLEAN]
    /\ v_pc = "start"
    /\ v_attempt = 0
    /\ v_log = <<>>
    /\ v_sleeps = 0
    /\ v_result = <<FALSE, 0>>
    /\ IdleScore
    /\ IdleConsistency
    /\ IdleEvaluator

NextValidate ==
    \/ ValidateUrl /\ UNCHANGED <<supVars, agentVars, scoreVars, consVars, evalVars>>
    \/ ValidateAttempt /\ UNCHANGED <<supVars, agentVars, scoreVars, consVars, evalVars>>
    \/ ValidateSleep /\ UNCHANGED <<supVars, agentVars, scoreVars, consVars, evalVars>>

SpecValidate == InitValidate /\ [][NextValidate]_vars

\* the scorer called on one set of audit records
InitScore ==
    /\ IdleSupervisor
    /\ IdleAgents
    /\ IdleValidate
    /\ s_in \in ScoreInputs
    /\ s_pc = "ready"
    /\ s_out = 0
    /\ IdleConsistency
    /\ IdleEvaluator

NextScore ==
    CalculateScore /\ UNCHANGED <<supVars, agentVars, valVars, consVars, evalVars>>

SpecScore == InitScore /\ [][NextScore]_vars

\* the consistency verification called on one report
InitConsistency ==
    /\ IdleSupervisor
    /\ IdleAgents
    /\ IdleValidate
    /\ IdleScore
    /\ c_in \in ConsistencyInputs
    /\ IdleEvaluator
    /\ c_pc = "ready"
    /\ c_out = <<>>

NextConsistency ==
    VerifyConsistency
       /\ UNCHANGED <<supVars, agentVars, valVars, scoreVars, evalVars>>

SpecConsistency == InitConsistency /\ [][NextConsistency]_vars

\* every part of the run other than the evaluator is idle
IdleRun ==
    /\ IdleSupervisor
    /\ IdleAgents
    /\ IdleValidate
    /\ IdleScore
    /\ IdleConsistency

runVars == <<supVars, agentVars, valVars, scoreVars, consVars>>

\* the recommendations generated for one set of audit records
InitRecommend ==
    /\ IdleRun
    /\ r_in \in RecommendInputs
    /\ r_pc = "ready"
    /\ r_out = <<>>
    /\ IdleAudit
    /\ IdleFetch
    /\ IdleGroup
    /\ IdleFinalize
    /\ IdleClean

NextRecommend ==
    GenerateRecommendations
       /\ UNCHANGED <<runVars, auditVars, fetchVars, groupVars, finVars,
                      cleanVars>>

SpecRecommend == InitRecommend /\ [][NextRecommend]_vars

\* one audit of a report on one response of the model
InitAudit ==
    /\ IdleRun
    /\ IdleRecommend
    /\ a_in \in AuditInputs
    /\ a_pc = "ready"
    /\ a_out = <<>>
    /\ a_lists = <<>>
    /\ IdleFetch
    /\ IdleGroup
    /\ IdleFinalize
    /\ IdleClean

NextAudit ==
    \/ RunAudit
         /\ UNCHANGED <<runVars, recVars, fetchVars, groupVars, finVars,
                        cleanVars>>
    \/ AuditRaise
         /\ UNCHANGED <<runVars, recVars, fetchVars, groupVars, finVars,
                        cleanVars>>
    \/ AuditContinue
         /\ UNCHANGED <<runVars, recVars, fetchVars, groupVars, finVars,
                        cleanVars>>

SpecAudit == InitAudit /\ [][NextAudit]_vars

\* one HTTP operation: the validation of a URL or the fetch of a source
InitHttp ==
    /\ IdleSupervisor
    /\ IdleAgents
    /\ IdleScore
    /\ IdleConsistency
    /\ IdleRecommend
    /\ IdleAudit
    /\ IdleGroup
    /\ IdleFinalize
    /\ IdleClean
    /\ \/ /\ v_url \in [scheme : BOOLEAN, netloc : BOOLEAN]
          /\ v_pc = "start"
          /\ v_attempt = 0
          /\ v_log = <<>>
          /\ v_sleeps = 0
          /\ v_result = <<FALSE, 0>>
          /\ IdleFetch
       \/ /\ IdleValidate
          /\ f_in \in FetchOutcomes
          /\ f_pc = "ready"
          /\ f_out = <<>>

NextHttp ==
    \/ NextValidate
    \/ FetchSourceContent
         /\ UNCHANGED <<runVars, recVars, auditVars, groupVars, finVars,
                        cleanVars>>

SpecHttp == InitHttp /\ [][NextHttp]_vars

\* one parallel group: the validation of the URLs of a report or the fetch
\* of its cited sources
InitGroup ==
    /\ IdleRun
    /\ IdleRecommend
    /\ IdleAudit
    /\ IdleFetch
    /\ g_in \in GroupInputs
    /\ g_pc = "gathering"
    /\ g_tasks = <<>>
    /\ g_out = <<>>
    /\ IdleFinalize
    /\ IdleClean

NextGroup ==
    \/ GroupAdmit
         /\ UNCHANGED <<runVars, recVars, auditVars, fetchVars, finVars,
                        cleanVars>>
    \/ GroupMemberDone
         /\ UNCHANGED <<runVars, recVars, auditVars, fetchVars, finVars,
                        cleanVars>>
    \/ GroupMemberRaise
         /\ UNCHANGED <<runVars, recVars, auditVars, fetchVars, finVars,
                        cleanVars>>
    \/ GroupReturn
         /\ UNCHANGED <<runVars, recVars, auditVars, fetchVars, finVars,
                        cleanVars>>

SpecGroup == InitGroup /\ [][NextGroup]_vars

\* finalize_report on one state
InitFinalize ==
    /\ IdleRun
    /\ IdleRecommend
    /\ IdleAudit
    /\ IdleFetch
    /\ IdleGroup
    /\ z_in \in FinalizeInputs
    /\ z_pc = "start"
    /\ z_step = 0
    /\ z_out = <<>>
    /\ IdleClean

NextFinalize ==
    \/ FinalizeStart
         /\ UNCHANGED <<runVars, recVars, auditVars, fetchVars, groupVars,
                        cleanVars>>
    \/ EvaluateStep
         /\ UNCHANGED <<runVars, recVars, auditVars, fetchVars, groupVars,
                        cleanVars>>
    \/ EvaluateRaise
         /\ UNCHANGED <<runVars, recVars, auditVars, fetchVars, groupVars,
                        cleanVars>>
    \/ ExceptFallback
         /\ UNCHANGED <<runVars, recVars, auditVars, fetchVars, groupVars,
                        cleanVars>>

SpecFinalize == InitFinalize /\ [][NextFinalize]_vars

\* fix_report on one report and one set of invalid sources
InitClean ==
    /\ IdleRun
    /\ IdleRecommend
    /\ IdleAudit
    /\ IdleFetch
    /\ IdleGroup
    /\ IdleFinalize
    /\ k_in \in CleanInputs
    /\ k_pc = "ready"
    /\ k_out = <<>>

NextClean ==
    \/ RemoveInvalidUrls
         /\ UNCHANGED <<runVars, recVars, auditVars, fetchVars, groupVars,
                        finVars>>
    \/ WriterReturn
         /\ UNCHANGED <<runVars, recVars, auditVars, fetchVars, groupVars,
                        finVars>>
    \/ WriterRaise
         /\ UNCHANGED <<runVars, recVars, auditVars, fetchVars, groupVars,
                        finVars>>

SpecClean == InitClean /\ [][NextClean]_vars

-----------------------------------------------------------------------------
(* Claims                                                                   *)

\* the contents of the tool-result messages of a history, in history order
ToolResultContents(messages) ==
    LET tools == SelectSeq(messages, LAMBDA m : m.type = "tool")
    IN [k \in 1..Len(tools) |-> tools[k].content]

\* the decision messages of a history, in history order
DecisionMessages(messages) == SelectSeq(messages, LAMBDA m : m.type = "ai")

\* C1 (under SpecResearcher): the search-call counter of a Sub-Researcher
\* Agent stays within 0..quota, is never decreased by a step, and, in every
\* state of an agent whose run no exception has aborted, equals the number
\* of search calls issued to the search tool.
C1_CounterInRange ==
    \A i \in DOMAIN agents :
        /\ agents[i].tavily_search_count \in 0..MAX_TAVILY_SEARCHES
        /\ agents[i].pc # "raised" =>
              agents[i].tavily_search_count = searches_executed[i]

C1_SearchCounter ==
    /\ C1_CounterInRange
    /\ [][ /\ C1_CounterInRange'
           /\ \A i \in DOMAIN agents :
                 agents'[i].tavily_search_count >= agents[i].tavily_search_count
         ]_vars

\* C1 witness: an agent that finished with the quota used up after a batch
\* in which a search was skipped
C1_Witness ==
    /\ sup_pc = "idle"
    /\ agents[1].pc = "END"
    /\ agents[1].tavily_search_count = MAX_TAVILY_SEARCHES
    /\ searches_executed[1] = MAX_TAVILY_SEARCHES
    /\ \E k \in DOMAIN agents[1].researcher_messages :
          /\ agents[1].researcher_messages[k].type = "tool"
          /\ agents[1].researcher_messages[k].content = limit_message

\* C2 (under Spec): the iteration count starts at 0, equals the number of
\* decision messages in the history in every state (so N after N
\* decisions), goes up by exactly 1 in a step that appends a decision and
\* is left unchanged by every other step.
C2_CountsDecisions ==
    /\ research_iterations = Len(DecisionMessages(supervisor_messages))
    /\ research_iterations = decisions

C2_IterationCount ==
    /\ research_iterations = 0
    /\ [][ /\ C2_CountsDecisions'
           /\ IF Len(DecisionMessages(supervisor_messages'))
                    # Len(DecisionMessages(supervisor_messages))
              THEN /\ sup_pc = "supervisor"
                   /\ research_iterations' = research_iterations + 1
              ELSE research_iterations' = research_iterations
         ]_vars

\* C2 witness: a run ended by the iteration budget, after decisions that
\* were dispatched
C2_Witness ==
    /\ sup_pc = "END"
    /\ research_iterations = max_researcher_iterations
    /\ Len(DecisionMessages(supervisor_messages)) = max_researcher_iterations
    /\ Last(supervisor_messages).tool_calls # <<>>

\* C3 (under FairSpec), as claimed: every supervisor run reaches Terminal,
\* and takes at most max_researcher_iterations decisions on the way.
C3_ReachesTerminal ==
    /\ [][decisions' <= max_researcher_iterations]_vars
    /\ <>(sup_pc = "END")

\* the three exit criteria, read off the state after a decision
C4_CriterionHolds ==
    LET latest == Last(supervisor_messages)
    IN \/ research_iterations >= 15
       \/ Len(latest.tool_calls) = 0
       \/ \E k \in 1..Len(latest.tool_calls) :
             latest.tool_calls[k].name = "ResearchComplete"

\* the step leaves supervisor_tools by its criterion return: no part of
\* Dispatch has run
C4_ExitsWithoutDispatch ==
    /\ sup_pc' = "END"
    /\ exit_path' = "criteria"
    /\ UNCHANGED <<supervisor_messages, draft_report, agentVars>>

\* the step enters Dispatch: it starts the agents, returns to Supervise, or
\* leaves by the except branch
C4_EntersDispatch ==
    \/ sup_pc' = "gather"
    \/ sup_pc' = "supervisor"
    \/ sup_pc' = "END" /\ exit_path' = "exception"

\* C4 (under Spec): the step after a decision exits without entering
\* Dispatch if and only if one of the three criteria holds, and enters
\* Dispatch otherwise; no other step takes the criterion exit.  A run that
\* has taken the criterion exit before its 3rd decision had a latest
\* decision with no tool call or with a Complete call.
C4_ExitCriteria ==
    [][ /\ sup_pc = "supervisor_tools" =>
              /\ C4_ExitsWithoutDispatch <=> C4_CriterionHolds
              /\ C4_EntersDispatch <=> ~ C4_CriterionHolds
        /\ (exit_path' = "criteria" /\ exit_path # "criteria") =>
              sup_pc = "supervisor_tools"
        /\ (exit_path' = "criteria" /\ research_iterations' < 3) =>
              \/ Last(supervisor_messages').tool_calls = <<>>
              \/ \E k \in DOMAIN Last(supervisor_messages').tool_calls :
                   Last(supervisor_messages').tool_calls[k].name
                      = "ResearchComplete"
      ]_vars

\* C4 witness (Scenario B): the first two decisions had tool calls and no
\* Complete call and were dispatched without error, the third has no tool
\* call, and the run has exited by criterion at iteration 3
C4_Witness ==
    LET ds == DecisionMessages(supervisor_messages)
    IN /\ sup_pc = "END"
       /\ exit_path = "criteria"
       /\ research_iterations = 3
       /\ Len(ds) = 3
       /\ ds[1].tool_calls # <<>>
       /\ ds[2].tool_calls # <<>>
       /\ ds[3].tool_calls = <<>>
       /\ Len(ToolResultContents(supervisor_messages)) >= 2

\* the research delegations of the latest decision, in call order
LatestDelegations ==
    SelectSeq(Last(supervisor_messages).tool_calls,
              LAMBDA tc : tc.name = "ConductResearch")

\* C5 (under Spec): while the supervisor waits, one agent exists per
\* research delegation of the latest decision; a step that brings the run
\* back to Supervise is taken only when every one of them has finished, and
\* no agent is running while Supervise is the next step.
C5_JoinBeforeSupervise ==
    [][ /\ sup_pc' = "gather" => Len(agents') = Len(LatestDelegations')
        /\ (sup_pc # "supervisor" /\ sup_pc' = "supervisor") =>
              \A i \in DOMAIN agents : agents[i].pc = "END"
        /\ sup_pc' = "supervisor" => agents' = <<>>
      ]_vars

\* C5 witness: three delegations of one decision, the last agent already
\* finished while the first has not taken a step: the supervisor still waits
C5_Witness ==
    /\ sup_pc = "gather"
    /\ Len(agents) = 3
    /\ agents[3].pc = "END"
    /\ agents[2].pc = "tool_node"
    /\ agents[1].pc = "llm_call"
    /\ Len(agents[1].researcher_messages) = 1

\* C6 (under Spec): a raise inside Dispatch sends the run to Terminal by the
\* except branch, which emits the contents of the tool-result messages of
\* the history and the unchanged research brief; a raised delegation lets
\* the waiting supervisor take no other step, and no step of Dispatch ends
\* the run by an exception that reaches the caller.
C6_DispatchFailureExits ==
    [][ /\ (exit_path' = "exception" /\ exit_path # "exception") =>
              /\ sup_pc \in {"supervisor_tools", "gather"}
              /\ sup_pc' = "END"
              /\ notes' = ToolResultContents(supervisor_messages)
              /\ research_brief' = research_brief
        /\ (/\ sup_pc = "gather"
            /\ \E i \in DOMAIN agents : agents[i].pc = "raised"
            /\ sup_pc' # sup_pc) =>
              sup_pc' = "END" /\ exit_path' = "exception"
        /\ sup_pc \in {"supervisor_tools", "gather"} => sup_pc' # "raised"
      ]_vars

\* C6 witness: a delegation of a later Dispatch raised; the run is at
\* Terminal with the notes of the earlier Dispatch
C6_Witness ==
    /\ sup_pc = "END"
    /\ exit_path = "exception"
    /\ \E i \in DOMAIN agents : agents[i].pc = "raised"
    /\ notes # <<>>
    /\ notes = ToolResultContents(supervisor_messages)
    /\ research_brief = "brief"

\* C10 (under Spec): each agent starts from its own topic alone and a
\* counter of 0; a human message in an agent's history is its own topic;
\* and a step of one agent leaves the state of every other agent unchanged.
C10_AgentsIsolated ==
    [][ /\ (sup_pc = "supervisor_tools" /\ sup_pc' = "gather") =>
              /\ Len(agents') = Len(LatestDelegations)
              /\ \A i \in DOMAIN agents' :
                    /\ agents'[i].researcher_messages =
                          <<HumanMessage(LatestDelegations[i].args)>>
                    /\ agents'[i].research_topic = LatestDelegations[i].args
                    /\ agents'[i].tavily_search_count = 0
        /\ \A i \in DOMAIN agents' :
              \A k \in DOMAIN agents'[i].researcher_messages :
                 agents'[i].researcher_messages[k].type = "human" =>
                    agents'[i].researcher_messages[k].content
                       = agents'[i].research_topic
        /\ (DOMAIN agents' = DOMAIN agents /\ sup_pc' = sup_pc) =>
              \A i, j \in DOMAIN agents :
                 (i # j /\ agents'[i] # agents[i]) =>
                    /\ agents'[j] = agents[j]
                    /\ searches_executed'[j] = searches_executed[j]
      ]_vars

\* C10 witness: two agents of one decision have together executed more
\* searches than one quota allows
C10_Witness ==
    /\ sup_pc = "gather"
    /\ Len(agents) >= 2
    /\ agents[1].research_topic # agents[2].research_topic
    /\ agents[1].tavily_search_count > 0
    /\ agents[2].tavily_search_count > 0
    /\ agents[1].tavily_search_count + agents[2].tavily_search_count
          > MAX_TAVILY_SEARCHES

\* C7 (under SpecScore): the returned objectivity score lies in [0,1]
\* (0..1000000 millionths) for every combination of metric values, in or
\* out of [0,1], and of counts of unsupported claims and inconsistencies.
C7_ScoreInUnitInterval ==
    s_pc = "done" => (0 <= s_out /\ s_out <= 1000000)

\* C7 witness: metric values outside [0,1] whose weighted sum exceeds 1
\* before the clamp
C7_Witness ==
    /\ s_pc = "done"
    /\ s_in.one_sided_score < 0
    /\ s_in.source_credibility_score > 100
    /\ s_in.consistency_score > 100
    /\ s_in.unsupported = 0
    /\ s_out = 1000000

\* the attempts of a validation, as <<is_valid, status_code>> pairs
AttemptResults == [k \in 1..Len(v_log) |-> v_log[k].result]

\* C8 (under SpecValidate): the attempts of validate(url) are made one after
\* another, at most 3; every attempt but the last is invalid and is followed
\* by exactly one pause; no pause follows the last attempt; the validation
\* ends at the first valid attempt or at the 3rd attempt; and the reported
\* pair is the outcome of the last attempt made.
C8_RetryDiscipline ==
    /\ Len(v_log) <= 3
    /\ \A k \in 1..(Len(v_log) - 1) : AttemptResults[k][1] = FALSE
    /\ v_pc = "request" => v_sleeps = Len(v_log) /\ Len(v_log) < 3
    /\ v_pc = "sleep" =>
          /\ v_sleeps = Len(v_log) - 1
          /\ Len(v_log) \in 1..2
          /\ AttemptResults[Len(v_log)][1] = FALSE
    /\ (v_pc = "done" /\ v_log # <<>>) =>
          /\ v_sleeps = Len(v_log) - 1
          /\ v_result = AttemptResults[Len(v_log)]
          /\ v_result[1] = TRUE \/ Len(v_log) = 3

\* C8 witness: two invalid attempts, each followed by a pause, then a valid
\* third attempt whose outcome is reported
C8_Witness ==
    /\ v_pc = "done"
    /\ Len(v_log) = 3
    /\ v_sleeps = 2
    /\ v_result[1] = TRUE
    /\ v_result = v_log[3].result

\* the classification rule as claimed, for the outcome of one GET
C9_ClaimedValid(outcome) ==
    /\ outcome.kind = "response"
    /\ \/ /\ outcome.status >= 200
          /\ outcome.status < 300
          /\ outcome.body # "marker_in_sample"
       \/ outcome.status >= 300 /\ outcome.status < 400
       \/ outcome.status \in {401, 403, 429}

\* C9 (under SpecValidate), as claimed: every attempt is classified valid
\* exactly when the claimed rule holds of its outcome, and reports the
\* status of the response (0 for a timeout or a transport exception).
C9_ClassificationAsClaimed ==
    \A k \in DOMAIN v_log :
        /\ v_log[k].result[1] = C9_ClaimedValid(v_log[k].outcome)
        /\ v_log[k].result[2] = v_log[k].outcome.status

\* the search calls among the first n calls of a batch
SearchesAmong(tool_calls, n) ==
    Cardinality({j \in 1..n : tool_calls[j].name = "tavily_search"})

\* the counter when call k of a batch is processed, the batch having been
\* entered with the counter at c0
CounterAtCall(tool_calls, c0, k) ==
    Min(c0 + SearchesAmong(tool_calls, k - 1), MAX_TAVILY_SEARCHES)

\* C11 (under SpecResearcher): in every tool batch that tool_node completes,
\* each call gets exactly one tool result, in call order, carrying the
\* call's own identifier; a search call processed with the counter at the
\* quota is not executed, its result is the quota-exceeded observation and
\* the counter stays at the quota; every other call of the batch (searches
\* under quota, reflection) is executed and its result is its observation.
C11_BatchStep(i) ==
    LET ag == agents[i]
        tool_calls == Last(ag.researcher_messages).tool_calls
        n == Len(ag.researcher_messages)
        c0 == ag.tavily_search_count
        skipped == {k \in 1..Len(tool_calls) :
                      /\ tool_calls[k].name = "tavily_search"
                      /\ CounterAtCall(tool_calls, c0, k) = MAX_TAVILY_SEARCHES}
        out == agents'[i].researcher_messages
    IN /\ Len(out) = n + Len(tool_calls)
       /\ \A k \in 1..n : out[k] = ag.researcher_messages[k]
       /\ \A k \in 1..Len(tool_calls) :
             /\ out[n + k].type = "tool"
             /\ out[n + k].tool_call_id = tool_calls[k].id
             /\ out[n + k].name = tool_calls[k].name
             /\ out[n + k].content =
                   IF k \in skipped THEN limit_message
                   ELSE Observation(tool_calls[k])
       /\ agents'[i].tavily_search_count =
             c0 + SearchesAmong(tool_calls, Len(tool_calls)) - Cardinality(skipped)
       /\ searches_executed'[i] - searches_executed[i] =
             SearchesAmong(tool_calls, Len(tool_calls)) - Cardinality(skipped)
       /\ (c0 = MAX_TAVILY_SEARCHES) => agents'[i].tavily_search_count = c0

C11_QuotaSkips ==
    [][\A i \in DOMAIN agents :
          (agents[i].pc = "tool_node" /\ agents'[i].pc = "llm_call")
             => C11_BatchStep(i)]_vars

\* C11 witness: a batch of 6 searches entered with the counter at 0 has
\* been completed: 5 searches were executed and the 6th call got the
\* quota-exceeded observation under its own identifier
C11_Witness ==
    /\ sup_pc = "idle"
    /\ agents[1].pc = "llm_call"
    /\ agents[1].tavily_search_count = MAX_TAVILY_SEARCHES
    /\ searches_executed[1] = MAX_TAVILY_SEARCHES
    /\ Len(agents[1].researcher_messages) = 8
    /\ Len(agents[1].researcher_messages[2].tool_calls) = 6
    /\ agents[1].researcher_messages[7].content = "search_result"
    /\ agents[1].researcher_messages[8].content = limit_message
    /\ agents[1].researcher_messages[8].tool_call_id =
          agents[1].researcher_messages[2].tool_calls[6].id

\* the tool messages a step appends to the supervisor history
AppendedByStep ==
    { supervisor_messages'[k] :
        k \in (Len(supervisor_messages) + 1)..Len(supervisor_messages') }

\* C12 (under Spec), as claimed: when the wait for the delegations of a
\* decision ends and one of the agents has raised, every agent of the
\* decision has ended (none was left running or dropped), every delegation
\* has a tool result in the history, and the result of each agent that
\* finished carries its compressed finding.
C12_SiblingsCollected ==
    [][ (sup_pc = "gather" /\ sup_pc' # "gather" /\ GatherFailed(agents)) =>
          LET research_calls ==
                CallsNamed(Last(supervisor_messages).tool_calls,
                           "ConductResearch")
          IN \A i \in DOMAIN agents :
                /\ agents[i].pc \in {"END", "raised"}
                /\ \E m \in AppendedByStep :
                      /\ m.type = "tool"
                      /\ m.tool_call_id = research_calls[i].id
                      /\ agents[i].pc = "END" =>
                            m.content = agents[i].compressed_research
      ]_vars

\* C13 (under Spec), as claimed: no failure of a Supervise or Dispatch step
\* leaves the supervisor loop; a run that a failure has ended is at Terminal
\* with the tool-result contents of its history emitted as notes.
C13_NoFailurePropagates ==
    /\ sup_pc # "raised"
    /\ exit_path = "exception" =>
          /\ sup_pc = "END"
          /\ notes = ToolResultContents(supervisor_messages)

\* C14 (under SpecResearcherLoop), as claimed, for the runs that no
\* exception aborts: every run of the Decide / Execute-Tools loop eventually
\* leaves the loop and reaches Terminal, whatever the model keeps requesting.
C14_AgentTerminates ==
    <>(agents[1].pc = "END" \/ agents[1].pc = "raised")

\* C15 (under SpecResearcher), as claimed: a Decide step never aborts the
\* agent; when the call of the tool-bound model fails the step still
\* appends a response (one without tool calls) and the agent goes on to
\* its next node.
C15_DecideFallsBack ==
    [][\A i \in DOMAIN agents :
          agents[i].pc = "llm_call" =>
             /\ agents'[i].pc \in {"llm_call", "tool_node", "compress_research"}
             /\ agents'[i].pc # "llm_call" =>
                   /\ Len(agents'[i].researcher_messages) =
                         Len(agents[i].researcher_messages) + 1
                   /\ Last(agents'[i].researcher_messages).type = "ai"
      ]_vars

\* C16 (under Spec): at Terminal, reached by an exit criterion or by a
\* Dispatch failure, the emitted notes are the contents of all tool-result
\* messages of the history, in history order (reflection and refine results
\* included), and the research brief is the one the run was given.
C16_NotesOnExit ==
    sup_pc = "END" =>
       /\ exit_path \in {"criteria", "exception"}
       /\ notes = ToolResultContents(supervisor_messages)
       /\ research_brief = supervisor_messages[2].content

\* C16 witness: a run ended by a Dispatch failure after a decision whose
\* reflection, delegation and refine results are all in the notes
C16_Witness ==
    /\ sup_pc = "END"
    /\ exit_path = "exception"
    /\ notes = <<"reflection", "finding_t3", "draft1">>
    /\ Len(supervisor_messages) = 7

\* the refine results a step appends to the supervisor history
RefineResultsOfStep ==
    {m \in AppendedByStep : m.type = "tool" /\ m.name = "refine_draft_report"}

\* C17 (under Spec): a Dispatch that completes for a decision with refine
\* calls refines the draft exactly once, from the draft current at that
\* moment; the refined draft becomes the draft report and is the content of
\* the tool result of every refine call of the batch (one result per call).
\* A Dispatch of a decision with no refine call leaves the draft unchanged.
C17_RefineOnce ==
    [][ (sup_pc \in {"supervisor_tools", "gather"} /\ sup_pc' = "supervisor") =>
          LET refine_calls ==
                CallsNamed(Last(supervisor_messages).tool_calls,
                           "refine_draft_report")
          IN IF refine_calls = <<>>
             THEN draft_report' = draft_report /\ RefineResultsOfStep = {}
             ELSE /\ draft_report' = NextDraft(draft_report)
                  /\ Cardinality(RefineResultsOfStep) = Len(refine_calls)
                  /\ \A k \in DOMAIN refine_calls :
                        \E m \in RefineResultsOfStep :
                           /\ m.tool_call_id = refine_calls[k].id
                           /\ m.content = draft_report'
      ]_vars

\* C17 witness: a decision with two refine calls has been dispatched: both
\* tool results carry the one refined draft, which is the draft report
C17_Witness ==
    /\ sup_pc = "supervisor"
    /\ draft_report = "draft1"
    /\ Len(supervisor_messages) = 5
    /\ Len(supervisor_messages[3].tool_calls) = 2
    /\ \A k \in 4..5 :
          /\ supervisor_messages[k].name = "refine_draft_report"
          /\ supervisor_messages[k].content = "draft1"
    /\ supervisor_messages[4].tool_call_id # supervisor_messages[5].tool_call_id

\* the reference: weights and penalty steps in hundredths, the result in
\* millionths
C18_Weighted(in) ==
    35 * (100 - in.one_sided_score) + 25 * in.source_credibility_score
      + 15 * in.source_diversity_score + 10 * in.quantitative_ratio
      + 15 * in.consistency_score

C18_Factor(in) ==
    LET u == 5 * in.unsupported
        c == 3 * (in.numerical_inconsistencies + in.contextual_mismatches)
    IN 100 - (IF u < 15 THEN u ELSE 15) - (IF c < 15 THEN c ELSE 15)

C18_Reference(in) ==
    LET raw == C18_Weighted(in) * C18_Factor(in)
    IN IF raw < 0 THEN 0 ELSE IF raw > 1000000 THEN 1000000 ELSE raw

\* C18 (under SpecScore): the score the scorer returns is
\* clamp01([0.35*(1 - one_sided) + 0.25*credibility + 0.15*diversity
\*          + 0.10*quantitative_ratio + 0.15*consistency]
\*         * (1 - min(0.05*unsupported, 0.15)
\*              - min(0.03*(numerical + contextual), 0.15)))
\* of its inputs, and so is the same for the same inputs.
C18_ScoreFormula ==
    s_pc = "done" => s_out = C18_Reference(s_in)

\* C18 witness: a score strictly inside (0,1) with the unsupported-claims
\* penalty at its cap and the inconsistency penalty below its cap
C18_Witness ==
    /\ s_pc = "done"
    /\ s_in.one_sided_score = 50
    /\ s_in.source_credibility_score = 50
    /\ s_in.source_diversity_score = 0
    /\ s_in.quantitative_ratio = 0
    /\ s_in.consistency_score = 50
    /\ s_in.unsupported = 4
    /\ s_in.numerical_inconsistencies = 1
    /\ s_in.contextual_mismatches = 1
    /\ s_out = 296250

\* the audit records as the dataclasses construct them, with nothing found:
\* every metric 0.0 and every list empty; the consistency score is the
\* default 0.0 or the 1.0 of "no claims to check"
AllEmptyInputs ==
    /\ s_in.one_sided_score = 0
    /\ s_in.source_credibility_score = 0
    /\ s_in.source_diversity_score = 0
    /\ s_in.quantitative_ratio = 0
    /\ s_in.consistency_score \in {0, 100}
    /\ s_in.unsupported = 0
    /\ s_in.numerical_inconsistencies = 0
    /\ s_in.contextual_mismatches = 0

\* C20 (under SpecScore), as claimed: for all-empty inputs the computed
\* objectivity score is 1.0.
C20_EmptyInputsScoreOne ==
    (s_pc = "done" /\ AllEmptyInputs) => s_out = 1000000

\* some warning rule fires on the records
C21_WarningFires(in) ==
    \/ in.one_sided_score > 60
    \/ in.source_diversity_score < 50
    \/ in.quantitative_ratio < 30
    \/ in.source_credibility_score < 60
    \/ in.unsupported > 0
    \/ in.missing_counter_evidence > 0
    \/ in.numerical_inconsistencies > 0
    \/ in.contextual_mismatches > 0
    \/ in.consistency_score < 80

C21_Confirmations ==
    {k \in DOMAIN r_out : r_out[k] = "good_objectivity"}

\* C21 (under SpecRecommend): the recommendation list is never empty; it
\* holds the positive confirmation exactly when no warning rule fired, and
\* then holds nothing else; the confirmation never appears twice.
C21_ConfirmationIffNoWarning ==
    r_pc = "done" =>
       /\ r_out # <<>>
       /\ (C21_Confirmations # {}) <=> ~ C21_WarningFires(r_in)
       /\ C21_Confirmations # {} => r_out = <<"good_objectivity">>
       /\ Cardinality(C21_Confirmations) <= 1

\* C21 witness: records on the good side of every threshold, answered with
\* the confirmation alone
C21_Witness ==
    /\ r_pc = "done"
    /\ r_in.one_sided_score = 60
    /\ r_in.source_credibility_score = 60
    /\ r_in.consistency_score = 80
    /\ r_out = <<"good_objectivity">>

\* the record of an audit with every field at its default
C22_AllDefaults(audit) ==
    CASE audit = "bias" -> DefaultBiasMetrics
      [] audit = "sources" -> DefaultSourceQualityMetrics
      [] audit = "claims" -> [unsupported |-> 0, missing_counter_evidence |-> 0]
      [] audit = "consistency" -> DefaultClaimSourceConsistency

\* the audit has returned on a response no object could be parsed from
C22_UnparsedAudited ==
    /\ a_pc \in {"audited", "scoring"}
    /\ ~ a_in.analysis.parsed

\* C22 as stated (under SpecAudit): for each of the bias, source, claim and
\* consistency audits, a response no JSON object can be parsed from yields
\* the audit's all-defaults record and never raises.
C22_UnparsedYieldsAllDefaults ==
    /\ ~ a_in.analysis.parsed => a_pc # "raised"
    /\ C22_UnparsedAudited => a_out = C22_AllDefaults(a_in.audit)

\* C22 amended (under SpecAudit): an unparseable response never raises and
\* yields the all-defaults record for the bias, claim and consistency
\* audits; the source audit yields the defaults with total_sources set to
\* the number of extracted sources and the credibility score set to 0.5.
C22_UnparsedYieldsFallback ==
    /\ ~ a_in.analysis.parsed => a_pc # "raised"
    /\ C22_UnparsedAudited =>
         IF a_in.audit = "sources"
         THEN /\ a_out.total_sources = Cardinality(a_in.sources)
              /\ a_out.source_credibility_score = 50
              /\ \A f \in DOMAIN a_out \ {"total_sources",
                                          "source_credibility_score"} :
                    a_out[f] = DefaultSourceQualityMetrics[f]
         ELSE a_out = C22_AllDefaults(a_in.audit)

\* C22 witness: the source audit of two sources went on to scoring after an
\* unparseable response
C22_Witness ==
    /\ a_pc = "scoring"
    /\ a_in.audit = "sources"
    /\ ~ a_in.analysis.parsed
    /\ Cardinality(a_in.sources) = 2
    /\ a_out.total_sources = 2

\* C23 (under SpecAudit): whatever the model answers to the source audit,
\* the invalid sources of the returned record are exactly the extracted
\* URLs whose validation ended invalid.
C23_InvalidSourcesReported ==
    (a_pc \in {"audited", "scoring"} /\ a_in.audit = "sources") =>
       a_out.invalid_sources
          = {url \in a_in.sources :
                url \in DOMAIN a_in.url_validation
                   => ~ a_in.url_validation[url]}

C25_TransportFailure(outcome) ==
    outcome.kind \in {"timeout", "client_error", "exception"}

C26_Finished ==
    {i \in DOMAIN g_tasks : g_tasks[i].state \in {"done", "raised"}}

\* C26 (under SpecGroup): at most 10 validations and at most 5 content
\* fetches hold a slot at any time, however many URLs there are; the group
\* returns only after every member has been admitted and has finished, and
\* every URL whose validation returned has its result.
C26_BoundedConcurrency ==
    /\ g_in.kind = "validate" => Cardinality(InFlight) <= 10
    /\ g_in.kind = "fetch" => Cardinality(InFlight) <= 5
    /\ g_pc = "returned" =>
          /\ C26_Finished = DOMAIN g_in.members
          /\ g_in.kind = "validate" =>
                \A i \in DOMAIN g_in.members :
                   g_tasks[i].state = "done" => g_in.members[i] \in DOMAIN g_out

\* C26 witness: eleven URLs to validate, ten validations in flight and the
\* eleventh waiting for a slot
C26_Witness ==
    /\ g_in.kind = "validate"
    /\ Len(g_in.members) = 11
    /\ Len(g_tasks) = 10
    /\ Cardinality(InFlight) = 10

\* the fetch of member i returned status 200 with a non-empty text
C27_Succeeded(i) ==
    /\ g_tasks[i].state = "done"
    /\ g_tasks[i].outcome.kind = "response"
    /\ g_tasks[i].outcome.status = 200
    /\ g_tasks[i].outcome.body # "empty"

\* C27 (under SpecGroup): the content map has an entry for a citation
\* exactly when the fetch of that citation has succeeded (status 200 and a
\* non-empty text); a failed fetch leaves no entry and no error and does not
\* touch the entries of the others; every key is a citation number of the
\* source map.
C27_ContentMapEntries ==
    g_in.kind = "fetch" =>
       /\ \A i \in DOMAIN g_tasks :
             /\ g_tasks[i].state # "raised"
             /\ C27_Succeeded(i) <=> g_in.members[i] \in DOMAIN g_out
       /\ \A c \in DOMAIN g_out :
             /\ \E i \in DOMAIN g_tasks : g_in.members[i] = c
             /\ g_out[c] # ""
             /\ g_out[c] # None

\* C27 witness: citations 2, 4 and 6 were fetched; the first succeeded, the
\* second timed out, the third came back empty: only citation 2 has an entry
C27_Witness ==
    /\ g_pc = "returned"
    /\ g_in.kind = "fetch"
    /\ g_in.members = <<2, 4, 6>>
    /\ C27_Succeeded(1)
    /\ g_tasks[2].outcome.kind = "timeout"
    /\ g_tasks[3].outcome.body = "empty"
    /\ DOMAIN g_out = {2}

\* C28 (under SpecValidate): a URL without a scheme or without a host is
\* rejected at once as (invalid, 0): no request is made, nothing is retried
\* and there is no pause.
C28_RejectedWithoutRequest ==
    (~ v_url.scheme \/ ~ v_url.netloc) =>
       /\ v_pc \in {"start", "done"}
       /\ v_log = <<>>
       /\ v_attempt = 0
       /\ v_sleeps = 0
       /\ v_pc = "done" => v_result = <<FALSE, 0>>

\* C28 witness: a URL with a scheme and no host, rejected
C28_Witness ==
    /\ v_pc = "done"
    /\ v_url.scheme
    /\ ~ v_url.netloc
    /\ v_result = <<FALSE, 0>>
    /\ v_log = <<>>

\* C29 (under SpecFinalize): when the evaluation raises at any of its
\* steps, finalize_report does not raise: it returns the main report as it
\* was, with no evaluation result.
C29_EvaluationFailureFallsBack ==
    /\ z_pc # "raised"
    /\ (z_pc = "returned" /\ z_step \in DOMAIN EvaluationSteps) =>
          /\ z_out.main_report = z_in.main_report
          /\ "red_team_evaluation" \notin DOMAIN z_out

\* C29 witness: the consistency audit raised and the report came back alone
C29_Witness ==
    /\ z_pc = "returned"
    /\ z_step \in DOMAIN EvaluationSteps
    /\ EvaluationSteps[z_step] = "_verify_claim_source_consistency"
    /\ z_in.main_report = "report A"
    /\ z_out.main_report = "report A"
    /\ DOMAIN z_out = {"main_report", "messages"}

\* the citation numbers of the Sources section of a report, in order
C24_SourceNumbers(report) ==
    LET i == CHOOSE i \in DOMAIN report : report[i].header = "Sources"
    IN [k \in DOMAIN report[i].lines |-> report[i].lines[k].num]

\* C24 (under SpecClean): once invalid sources were removed from a report,
\* the citation numbers of the Sources section of the final report are
\* 1, 2, ..., n with no gap.
C24_FinalSourcesGapless ==
    (k_pc = "fixed" /\ \E i \in DOMAIN k_out : k_out[i].header = "Sources") =>
       \A k \in DOMAIN C24_SourceNumbers(k_out) :
          C24_SourceNumbers(k_out)[k] = k

\* the lines of the Sources section of a report, <<>> when it has none
C30_SourceLines(report) ==
    IF \E i \in DOMAIN report : report[i].header = "Sources"
    THEN report[CHOOSE i \in DOMAIN report :
                   report[i].header = "Sources"].lines
    ELSE <<>>

\* C30 (under SpecClean): the cleaning step removes from the Sources section
\* exactly the lines whose URL is in the invalid set, keeps every line whose
\* URL is valid, and leaves everything outside the Sources section as it
\* was; with no invalid URL or no Sources section the report is unchanged.
C30_RemovesExactlyInvalid ==
    k_pc = "cleaned" =>
       /\ Len(k_out) = Len(k_in.report)
       /\ \A i \in DOMAIN k_out :
             /\ k_out[i].header = k_in.report[i].header
             /\ k_out[i].header # "Sources" => k_out[i] = k_in.report[i]
       /\ LET Valid(line) == line.url \notin k_in.invalid_urls
          IN C30_SourceLines(k_out)
                = SelectSeq(C30_SourceLines(k_in.report), Valid)
       /\ k_in.invalid_urls = {} => k_out = k_in.report

\* C19 (under SpecConsistency), as claimed: the consistency score of the
\* returned record is verified / (verified + numerical inconsistencies +
\* contextual mismatches) when that sum is positive, and 1.0 when there
\* were no claims to check at all, whatever the reason.
C19_ConsistencyScore ==
    c_pc = "done" =>
       LET total == c_out.verified_claims_count
                      + c_out.numerical_inconsistencies
                      + c_out.contextual_mismatches
           score == c_out.consistency_score
       IN IF total > 0
          THEN score[1] * total = c_out.verified_claims_count * score[2]
          ELSE score[1] = score[2]

\* the step is part of a Dispatch
C31_InDispatch == sup_pc \in {"supervisor_tools", "gather"}

C32_IdsOf(tool_calls, name) ==
    LET calls == SelectSeq(tool_calls, LAMBDA tc : tc.name = name)
    IN [k \in DOMAIN calls |-> calls[k].id]

\* the identifiers of the tool results a step appends, in history order
C32_AppendedIds ==
    [k \in 1..(Len(supervisor_messages') - Len(supervisor_messages)) |->
        supervisor_messages'[Len(supervisor_messages) + k].tool_call_id]

\* C32 (under Spec): within one Dispatch the reflection calls have run when
\* the research delegations start, the refine call runs only after the
\* delegations have joined, and the tool results appended are the
\* reflection results, then the research results, then the refine results,
\* each group in the order of its calls, whatever the order of the calls in
\* the decision.
C32_CategorizationOrder ==
    [][ LET tool_calls == Last(supervisor_messages).tool_calls
        IN /\ (sup_pc = "supervisor_tools" /\ sup_pc' = "gather") =>
                 /\ [k \in DOMAIN pending' |-> pending'[k].tool_call_id]
                       = C32_IdsOf(tool_calls, "think_tool")
                 /\ \A i \in DOMAIN agents' :
                       Len(agents'[i].researcher_messages) = 1
                 /\ draft_report' = draft_report
           /\ (sup_pc = "gather" /\ draft_report' # draft_report) =>
                 \A i \in DOMAIN agents : agents[i].pc = "END"
           /\ (C31_InDispatch /\ sup_pc' = "supervisor") =>
                 C32_AppendedIds
                    = C32_IdsOf(tool_calls, "think_tool")
                         \o C32_IdsOf(tool_calls, "ConductResearch")
                         \o C32_IdsOf(tool_calls, "refine_draft_report")
      ]_vars

\* C32 witness: the decision listed a refine, a delegation and a reflection
\* call in that order; the history holds their results in the opposite order
C32_Witness ==
    /\ sup_pc = "supervisor"
    /\ Len(supervisor_messages) = 6
    /\ supervisor_messages[3].tool_calls[1].name = "refine_draft_report"
    /\ supervisor_messages[3].tool_calls[3].name = "think_tool"
    /\ supervisor_messages[4].name = "think_tool"
    /\ supervisor_messages[5].name = "ConductResearch"
    /\ supervisor_messages[6].name = "refine_draft_report"

\* C33 (under Spec): the findings handed to the refine tool are the contents,
\* in history order, of exactly the tool-result messages the history held
\* when the Dispatch began: every result of an earlier Dispatch is among
\* them, no reflection or research result of the same Dispatch is.
C33_FindingsArePriorResults ==
    [][ LET refine_calls == CallsNamed(Last(supervisor_messages).tool_calls,
                                       "refine_draft_report")
        IN /\ (C31_InDispatch /\ sup_pc' = "supervisor" /\ refine_calls # <<>>)
                => /\ refine_findings' = ToolResultContents(supervisor_messages)
                   /\ Len(refine_findings') + Cardinality(AppendedByStep)
                         = Len(ToolResultContents(supervisor_messages'))
           /\ (refine_findings' # refine_findings)
                => (C31_InDispatch /\ sup_pc' = "supervisor"
                    /\ refine_calls # <<>>) ]_vars

\* a refine Dispatch that follows a reflection Dispatch and runs a
\* delegation and a reflection of its own: one finding, four results
C33_Witness ==
    /\ sup_pc = "supervisor"
    /\ Len(supervisor_messages) = 8
    /\ supervisor_messages[4].name = "think_tool"
    /\ supervisor_messages[6].name = "think_tool"
    /\ supervisor_messages[7].name = "ConductResearch"
    /\ supervisor_messages[8].name = "refine_draft_report"
    /\ refine_findings = <<supervisor_messages[4].content>>

\* C34 (under SpecOverCap): the delegation cap is not enforced.  A Dispatch
\* starts one agent for every delegation of the decision in one step, also
\* for more than max_concurrent_researchers of them; while the supervisor
\* waits none has been dropped or held back, and the return to Supervise
\* appends exactly one tool result per delegation.
C34_CapNotEnforced ==
    [][ /\ (sup_pc = "supervisor_tools" /\ sup_pc' = "gather") =>
              /\ Len(agents') = Len(LatestDelegations)
              /\ \A k \in DOMAIN agents' :
                    /\ agents'[k].pc = "llm_call"
                    /\ agents'[k].research_topic = LatestDelegations[k].args
        /\ (sup_pc = "gather") => Len(agents) = Len(LatestDelegations)
        /\ (sup_pc = "gather" /\ sup_pc' = "supervisor") =>
              \A k \in DOMAIN LatestDelegations :
                 Cardinality({j \in (Len(supervisor_messages) + 1)
                                      ..Len(supervisor_messages') :
                                 /\ supervisor_messages'[j].type = "tool"
                                 /\ supervisor_messages'[j].tool_call_id
                                       = LatestDelegations[k].id}) = 1
      ]_vars

\* four delegations of one decision answered by four research results
C34_Witness ==
    /\ sup_pc = "supervisor"
    /\ Len(supervisor_messages) = 7
    /\ Len(supervisor_messages[3].tool_calls) > max_concurrent_researchers
    /\ \A j \in 4..7 :
          /\ supervisor_messages[j].name = "ConductResearch"
          /\ supervisor_messages[j].tool_call_id
                = supervisor_messages[3].tool_calls[j - 3].id

\* the place of a step in the try block of finalize_report
C35_StepIndex(name) ==
    CHOOSE k \in DOMAIN EvaluationSteps : EvaluationSteps[k] = name

\* the step has been called: it is under way or the run is past it
C35_Started(name) == z_step >= C35_StepIndex(name)

\* C35 (under SpecFinalize), as claimed: the bias, source and claim audits of
\* one evaluation are started together, so that in no state one of them has
\* been started while another has not.
C35_AuditsStartTogether ==
    \A a, b \in {"_analyze_bias", "_analyze_sources", "_verify_claims"} :
        C35_Started(a) => C35_Started(b)

\* the research results a step appends, in history order
C36_AppendedResearch ==
    SelectSeq(SubSeq(supervisor_messages', Len(supervisor_messages) + 1,
                     Len(supervisor_messages')),
              LAMBDA m : m.type = "tool" /\ m.name = "ConductResearch")

\* C36 (under Spec): whatever the order in which the agents of a decision
\* finished, the step that ends the wait appends one research result per
\* delegation, the i-th carrying the identifier of the i-th delegation call
\* and the compressed finding of the agent started for that call.
C36_ResultsFollowCallOrder ==
    [][ (sup_pc = "gather" /\ sup_pc' = "supervisor") =>
           /\ Len(C36_AppendedResearch) = Len(LatestDelegations)
           /\ \A i \in DOMAIN LatestDelegations :
                 /\ C36_AppendedResearch[i].tool_call_id
                       = LatestDelegations[i].id
                 /\ agents[i].research_topic = LatestDelegations[i].args
                 /\ C36_AppendedResearch[i].content
                       = agents[i].compressed_research
                 /\ C36_AppendedResearch[i].content
                       = Finding(LatestDelegations[i].args) ]_vars

\* three delegations on three topics answered by their three findings
C36_Witness ==
    /\ sup_pc = "supervisor"
    /\ Len(supervisor_messages) = 6
    /\ Len(supervisor_messages[3].tool_calls) = 3
    /\ \A j \in 4..6 :
          /\ supervisor_messages[j].name = "ConductResearch"
          /\ supervisor_messages[j].tool_call_id
                = supervisor_messages[3].tool_calls[j - 3].id
          /\ supervisor_messages[j].content
                = Finding(supervisor_messages[3].tool_calls[j - 3].args)
    /\ supervisor_messages[4].content # supervisor_messages[5].content
    /\ supervisor_messages[5].content # supervisor_messages[6].content

\* the identifiers of the tool calls of the latest decision
C37_LatestCallIds ==
    {Last(supervisor_messages).tool_calls[k].id :
        k \in DOMAIN Last(supervisor_messages).tool_calls}

\* C37 (under Spec): when an exit criterion holds after a decision, the step
\* that follows executes none of the calls of that decision (no agent is
\* started, no draft refined, no tool result appended) and ends the run, so
\* that the calls issued with a ResearchComplete call and the calls of the
\* decision that brings the count to max_researcher_iterations never get a
\* tool result; a run begins at most max_researcher_iterations - 1 Dispatch
\* steps.
C37_ExitDropsCalls ==
    [][ /\ (sup_pc = "supervisor_tools" /\ C4_CriterionHolds) =>
              /\ sup_pc' = "END"
              /\ exit_path' = "criteria"
              /\ supervisor_messages' = supervisor_messages
              /\ agents' = <<>>
              /\ draft_report' = draft_report
              /\ refine_findings' = refine_findings
              /\ dispatches' = dispatches
        /\ (sup_pc = "END" /\ exit_path = "criteria") =>
              \A j \in DOMAIN supervisor_messages :
                 supervisor_messages[j].type = "tool" =>
                    supervisor_messages[j].tool_call_id \notin C37_LatestCallIds
        /\ dispatches <= max_researcher_iterations - 1
        /\ dispatches' <= max_researcher_iterations - 1 ]_vars

\* the decision that brings the count to the maximum issued a reflection
\* call; the run ended without a result for it, after every earlier
\* decision was dispatched
C37_Witness ==
    /\ sup_pc = "END"
    /\ exit_path = "criteria"
    /\ research_iterations = max_researcher_iterations
    /\ Len(Last(supervisor_messages).tool_calls) = 1
    /\ Last(supervisor_messages).tool_calls[1].name = "think_tool"
    /\ dispatches = max_researcher_iterations - 1

\* C38 (under Spec): a Dispatch that fails leaves the history and the draft
\* report as they were when it began: while it runs nothing is written to
\* either, the failing step writes to neither, no tool result of the batch
\* is in the history, and the notes emitted are the results of the earlier
\* Dispatches only, without the reflections and the findings of sibling
\* delegations the batch had completed.
C38_FailedDispatchLeavesState ==
    [][ /\ (C31_InDispatch /\ sup_pc' # "supervisor") =>
              /\ supervisor_messages' = supervisor_messages
              /\ draft_report' = draft_report
        /\ (C31_InDispatch /\ exit_path' = "exception") =>
              /\ sup_pc' = "END"
              /\ notes' = ToolResultContents(supervisor_messages)
              /\ \A j \in DOMAIN supervisor_messages' :
                    supervisor_messages'[j].type = "tool" =>
                       supervisor_messages'[j].tool_call_id
                          \notin C37_LatestCallIds
              /\ Len(notes') =
                    Cardinality({j \in DOMAIN supervisor_messages :
                                    /\ supervisor_messages[j].type = "tool"
                                    /\ supervisor_messages[j].tool_call_id
                                          \notin C37_LatestCallIds}) ]_vars

\* after a reflection Dispatch, a decision of three delegations failed with
\* one agent raised and a sibling finished: the notes are the one reflection
C38_Witness ==
    /\ sup_pc = "END"
    /\ exit_path = "exception"
    /\ Len(supervisor_messages) = 5
    /\ Len(agents) = 3
    /\ agents[1].pc = "raised"
    /\ agents[3].pc = "END"
    /\ agents[3].compressed_research = "finding_t3"
    /\ notes = <<"reflection">>
    /\ draft_report = "draft0"

\* C39 (under Spec): the draft report is written only by the return of a
\* Dispatch whose decision has a refine call.  A Supervise step, the return
\* of a Dispatch of reflections and delegations only, the exit at a
\* criterion and the exit by the except branch leave it as it was.
C39_DraftWrittenByRefineOnly ==
    [][ LET refine_calls ==
              SelectSeq(Last(supervisor_messages).tool_calls,
                        LAMBDA tc : tc.name = "refine_draft_report")
        IN /\ (draft_report' # draft_report) =>
                 /\ C31_InDispatch
                 /\ sup_pc' = "supervisor"
                 /\ refine_calls # <<>>
           /\ (sup_pc = "supervisor") => draft_report' = draft_report
           /\ (C31_InDispatch /\ sup_pc' = "supervisor" /\ refine_calls = <<>>)
                 => draft_report' = draft_report
           /\ (exit_path' # exit_path) => draft_report' = draft_report
      ]_vars

\* a run of a delegation Dispatch, a refine Dispatch and the exit at a
\* ResearchComplete call: the draft was written once
C39_Witness ==
    /\ sup_pc = "END"
    /\ exit_path = "criteria"
    /\ Len(supervisor_messages) = 9
    /\ supervisor_messages[4].name = "ConductResearch"
    /\ supervisor_messages[5].name = "ConductResearch"
    /\ supervisor_messages[7].name = "refine_draft_report"
    /\ supervisor_messages[8].name = "refine_draft_report"
    /\ Last(supervisor_messages).tool_calls[1].name = "ResearchComplete"
    /\ draft_report = "draft1"

\* C40 (under SpecAudit): the valid and the invalid sources the source audit
\* works with partition the extracted sources: each extracted URL is in
\* exactly one of the two, a URL is among the valid ones only if validation
\* returned a result for it and the result is valid, and a URL without a
\* validation result is among the invalid ones.
C40_SourceListsPartition ==
    (a_in.audit = "sources" /\ a_pc \in {"audited", "scoring", "raised"}) =>
       /\ a_lists.valid_sources \cup a_lists.invalid_sources = a_in.sources
       /\ a_lists.valid_sources \cap a_lists.invalid_sources = {}
       /\ \A url \in a_lists.valid_sources :
             /\ url \in DOMAIN a_in.url_validation
             /\ a_in.url_validation[url]
       /\ \A url \in a_in.sources :
             url \notin DOMAIN a_in.url_validation
                => url \in a_lists.invalid_sources
       /\ (a_pc # "raised" /\ Truthy(a_in.analysis)) =>
             /\ a_out.valid_sources = Cardinality(a_lists.valid_sources)
             /\ a_out.invalid_sources = a_lists.invalid_sources

\* two extracted sources, one validated valid, the other without a result
C40_Witness ==
    /\ a_in.audit = "sources"
    /\ a_pc = "audited"
    /\ Cardinality(a_in.sources) = 2
    /\ Cardinality(DOMAIN a_in.url_validation) = 1
    /\ \A url \in DOMAIN a_in.url_validation : a_in.url_validation[url]
    /\ a_lists.valid_sources = DOMAIN a_in.url_validation
    /\ a_lists.invalid_sources = a_in.sources \ DOMAIN a_in.url_validation
    /\ Truthy(a_in.analysis)

=============================================================================
